---- MODULE Spec2Model ----
(***************************************************************************)
(* A model of the advent-of-code-2025 solutions (src/src/solutions/*.rs).  *)
(* Every day is an independent program; each gets its own variables, its   *)
(* own initial states (the inputs, drawn from bounded sets) and its own    *)
(* specification (SpecDay1, SpecDay2, ...).  While one day runs, the       *)
(* variables of the other days stay at their idle values.                  *)
(*                                                                         *)
(* Text is modelled as a sequence of one-character strings, so that        *)
(* parsing and formatting are computed character by character.             *)
(***************************************************************************)
EXTENDS Integers, Sequences, FiniteSets, TLC

VARIABLES
    \* ---- day 1 (src/src/solutions/day1.rs) ----
    d1_fn,          \* which function runs: "puzzle1" or "puzzle2"
    init_pos,       \* the init_pos argument (u8)
    rotations,      \* the rotations argument: a sequence of strings
    d1_next,        \* index (1-based) of the next rotation the for loop takes
    curr_pos,       \* the local curr_pos
    zero_count,     \* the local zero_count
    d1_pc           \* "start", "loop", "done" (returned) or "panic"

vars1 == <<d1_fn, init_pos, rotations, d1_next, curr_pos, zero_count, d1_pc>>

VARIABLES
    \* ---- day 3 (src/src/solutions/day3.rs) ----
    d3_input,       \* the input: a sequence of lines (str::lines())
    d3_next,        \* index (1-based) of the next line the iterator takes
    d3_nums,        \* the numbers the filter_map closure has produced so far
    d3_sum,         \* the value .sum() returns
    d3_pc           \* "lines", "done" (returned) or "panic"

vars3 == <<d3_input, d3_next, d3_nums, d3_sum, d3_pc>>

VARIABLES
    \* ---- day 2 (src/src/solutions/day2.rs) ----
    d2_fn,          \* which function runs: "puzzle1", "puzzle2", "from_str" or "day_2_puzzle_2"
    d2_input,       \* the input string
    ranges,         \* the local ranges: input.split(",")
    d2_next,        \* index (1-based) of the next range_str the for loop takes
    range,          \* the NumberRange being enumerated, <<from, to>>
    d2_i,           \* the loop variable i of "for i in range.0..=range.1"
    sum,            \* the local sum
    d2_pc           \* "split", "ranges", "numbers" or "done" (returned);
                    \* for from_str alone: "from_str", "ok", "err"

vars2 == <<d2_fn, d2_input, ranges, d2_next, range, d2_i, sum, d2_pc>>

VARIABLES
    \* ---- day 4 (src/src/solutions/day4.rs) ----
    d4_fn,          \* which function runs: "puzzle1" or "puzzle2"
    d4_input,       \* the input: a sequence of lines (str::lines())
    matrix,         \* the local matrix
    temp_matrix,    \* the local temp_matrix (puzzle2)
    final_count,    \* the local final_count
    keep_checking,  \* the local keep_checking (puzzle2)
    d4_i,           \* the loop variable i (a row, from 0)
    d4_j,           \* the loop variable j (a column, from 0)
    d4_pc,          \* "start", "while", "cells", "done" (returned), "panic"
    d4_passes       \* how often the body of the while loop of puzzle2 was entered

vars4 == <<d4_fn, d4_input, matrix, temp_matrix, final_count, keep_checking,
           d4_i, d4_j, d4_pc, d4_passes>>

VARIABLES
    \* ---- day 5 (src/src/solutions/day5.rs) ----
    d5_input,       \* the argument input, a text
    intervals,      \* the local intervals: a sequence of <<start, end>>
    d5_next,        \* index in intervals of the next item of the for loop
    total,          \* the local total
    current_start,  \* the local current_start
    current_end,    \* the local current_end
    d5_pc,          \* "start", "loop", "integers", "done" (returned), "panic"
    root_node,      \* the local root_node of puzzle1: <<>> until it is built
    d5_count        \* what count() has counted so far (puzzle1)

vars5 == <<d5_input, intervals, d5_next, total, current_start, current_end, d5_pc,
           root_node, d5_count>>

VARIABLES
    \* ---- day 6 (src/src/solutions/day6.rs) ----
    d6_file,          \* the bytes of the file at input_path
    current_offsets,  \* per line, the offsets <<lo, hi>> (lo..hi) not yet taken
    total_sum,        \* the local total_sum
    keep_processing,  \* the local keep_processing
    numbers,          \* the local numbers
    operation,        \* the local operation: "None", "Add" or "Multiply"
    num_string,       \* the local num_string
    d6_i,             \* the index i of the for loop over the lines (from 0)
    d6_pc             \* "start", "lines", "done" (returned), "panic"

vars6 == <<d6_file, current_offsets, total_sum, keep_processing, numbers,
           operation, num_string, d6_i, d6_pc>>

VARIABLES
    \* ---- day 7 (src/src/solutions/day7.rs) ----
    d7_file,        \* the bytes of the file at input_path
    overflow_checks,\* whether the build panics on integer overflow (debug)
    rows,           \* Grid.rows
    columns,        \* Grid.columns
    root_ray_node,  \* Grid.root_ray_node: the index of a node, 0 for None
    ray_map,        \* Grid.ray_map: a function from columns to lists of nodes
    ray_nodes,      \* the RayNodes allocated so far; a node is its index here
    d7_r,           \* the loop variable r of build_graph
    d7_result,      \* the value puzzle2 returns
    d7_pc,          \* "start", "rows", "built", "done" (returned), "panic"
    rays,           \* Grid.rays: the set of columns that hold a ray (puzzle1)
    total_splits    \* the local total_splits of count_ray_splits (puzzle1)

vars7 == <<d7_file, overflow_checks, rows, columns, root_ray_node, ray_map, ray_nodes, d7_r,
           d7_result, d7_pc, rays, total_splits>>

VARIABLES
    \* ---- utils (src/src/utils.rs), called from several threads ----
    pid,            \* std::process::id() of the one process
    fs,             \* the files of the temp directory: path -> bytes, NoFile if absent
    u_content,      \* per caller: the content it passes to string_to_file
    u_path,         \* per caller: the local path, then the String returned
    u_read,         \* per caller: the bytes it read from the path it was given
    u_pc            \* per caller: "call", "write", "returned", "read"; "idle"

varsUtils == <<pid, fs, u_content, u_path, u_read, u_pc>>

\* What a day leaves alone: the variables of the other days
others1 == <<vars2, vars3, vars4, vars5, vars6, vars7, varsUtils>>
others2 == <<vars1, vars3, vars4, vars5, vars6, vars7, varsUtils>>
others3 == <<vars1, vars2, vars4, vars5, vars6, vars7, varsUtils>>
\* day 4: only the entry of the while body changes the number of passes
others4 == <<vars1, vars2, vars3, vars5, vars6, vars7, varsUtils, d4_passes>>
others4pass == <<vars1, vars2, vars3, vars5, vars6, vars7, varsUtils>>
\* day 5: puzzle2 leaves the tree and the count of puzzle1 alone, and
\* puzzle1 leaves the locals of the merge alone
others5 == <<vars1, vars2, vars3, vars4, vars6, vars7, varsUtils, root_node, d5_count>>
others5p1 == <<vars1, vars2, vars3, vars4, vars6, vars7, varsUtils,
               total, current_start, current_end>>
others6 == <<vars1, vars2, vars3, vars4, vars5, vars7, varsUtils>>
\* day 7: the build of the graph (puzzle2) leaves the set of rays and the
\* count of puzzle1 alone, and puzzle1 leaves the graph alone
others7 == <<vars1, vars2, vars3, vars4, vars5, vars6, varsUtils, rays, total_splits>>
others7p1 == <<vars1, vars2, vars3, vars4, vars5, vars6, varsUtils,
               root_ray_node, ray_map, ray_nodes, d7_result>>
\* utils: the callers of string_to_file leave the days alone
othersUtils == <<vars1, vars2, vars3, vars4, vars5, vars6, vars7>>

vars == <<vars1, vars2, vars3, vars4, vars5, vars6, vars7, varsUtils>>

\* A day that is not running
IdleDay1 ==
    /\ d1_fn = "puzzle1"
    /\ init_pos = 0
    /\ rotations = <<>>
    /\ d1_next = 1
    /\ curr_pos = 0
    /\ zero_count = 0
    /\ d1_pc = "idle"

IdleDay3 ==
    /\ d3_input = <<>>
    /\ d3_next = 1
    /\ d3_nums = <<>>
    /\ d3_sum = [hi |-> 0, lo |-> 0]
    /\ d3_pc = "idle"

IdleDay2 ==
    /\ d2_fn = "puzzle1"
    /\ d2_input = <<>>
    /\ ranges = <<>>
    /\ d2_next = 1
    /\ range = <<0, 0>>
    /\ d2_i = 0
    /\ sum = 0
    /\ d2_pc = "idle"

IdleDay4 ==
    /\ d4_fn = "puzzle1"
    /\ d4_input = <<>>
    /\ matrix = <<>>
    /\ temp_matrix = <<>>
    /\ final_count = 0
    /\ keep_checking = FALSE
    /\ d4_i = 0
    /\ d4_j = 0
    /\ d4_pc = "idle"
    /\ d4_passes = 0

IdleDay5 ==
    /\ d5_input = <<>>
    /\ intervals = <<>>
    /\ d5_next = 1
    /\ total = 0
    /\ current_start = 0
    /\ current_end = 0
    /\ d5_pc = "idle"
    /\ root_node = <<>>
    /\ d5_count = 0

IdleDay6 ==
    /\ d6_file = <<>>
    /\ current_offsets = <<>>
    /\ total_sum = 0
    /\ keep_processing = FALSE
    /\ numbers = <<>>
    /\ operation = "None"
    /\ num_string = <<>>
    /\ d6_i = 0
    /\ d6_pc = "idle"

IdleDay7 ==
    /\ d7_file = <<>>
    /\ overflow_checks = FALSE
    /\ rows = 0
    /\ columns = 0
    /\ root_ray_node = 0
    /\ ray_map = <<>>
    /\ ray_nodes = <<>>
    /\ d7_r = 0
    /\ d7_result = 0
    /\ d7_pc = "idle"
    /\ rays = {}
    /\ total_splits = 0

\* No thread calls string_to_file
IdleUtils ==
    /\ pid = 0
    /\ fs = <<>>
    /\ u_content = <<>>
    /\ u_path = <<>>
    /\ u_read = <<>>
    /\ u_pc = <<>>

\* The other days are not running
idle1 == IdleDay2 /\ IdleDay3 /\ IdleDay4 /\ IdleDay5 /\ IdleDay6 /\ IdleDay7 /\ IdleUtils
idle2 == IdleDay1 /\ IdleDay3 /\ IdleDay4 /\ IdleDay5 /\ IdleDay6 /\ IdleDay7 /\ IdleUtils
idle3 == IdleDay1 /\ IdleDay2 /\ IdleDay4 /\ IdleDay5 /\ IdleDay6 /\ IdleDay7 /\ IdleUtils
idle4 == IdleDay1 /\ IdleDay2 /\ IdleDay3 /\ IdleDay5 /\ IdleDay6 /\ IdleDay7 /\ IdleUtils
idle5 == IdleDay1 /\ IdleDay2 /\ IdleDay3 /\ IdleDay4 /\ IdleDay6 /\ IdleDay7 /\ IdleUtils
idle6 == IdleDay1 /\ IdleDay2 /\ IdleDay3 /\ IdleDay4 /\ IdleDay5 /\ IdleDay7 /\ IdleUtils
idle7 == IdleDay1 /\ IdleDay2 /\ IdleDay3 /\ IdleDay4 /\ IdleDay5 /\ IdleDay6 /\ IdleUtils
idleUtils == IdleDay1 /\ IdleDay2 /\ IdleDay3 /\ IdleDay4 /\ IdleDay5 /\ IdleDay6 /\ IdleDay7

(***************************************************************************)
(* Text helpers                                                            *)
(***************************************************************************)
DigitChars == <<"0", "1", "2", "3", "4", "5", "6", "7", "8", "9">>

IsDigitChar(c) == \E d \in 1..10 : DigitChars[d] = c

\* char::to_digit(10) on a decimal digit character
DigitVal(c) == (CHOOSE d \in 1..10 : DigitChars[d] = c) - 1

\* str::parse::<u64>() on digits only: the value of a digit string
RECURSIVE DigitsValue(_)
DigitsValue(s) ==
    IF s = <<>> THEN 0
    ELSE 10 * DigitsValue(SubSeq(s, 1, Len(s) - 1)) + DigitVal(s[Len(s)])

\* str::parse::<u64>(): an optional leading "+", then one or more decimal
\* digits; anything else (empty text, a "-", a letter) is an error.
ParseU64(s) ==
    LET body == IF s # <<>> /\ s[1] = "+" THEN Tail(s) ELSE s
    IN  IF body # <<>> /\ \A k \in 1..Len(body) : IsDigitChar(body[k])
        THEN [ok |-> TRUE, val |-> DigitsValue(body)]
        ELSE [ok |-> FALSE, val |-> 0]

\* u64::to_string(): the decimal digits of n, without leading zeros
RECURSIVE U64ToString(_)
U64ToString(n) ==
    IF n < 10 THEN <<DigitChars[n + 1]>>
    ELSE U64ToString(n \div 10) \o <<DigitChars[(n % 10) + 1]>>

\* Rust's % on i64 truncates toward zero: the result takes the dividend's sign
RemTrunc(a, b) == IF a >= 0 THEN a % b ELSE -((-a) % b)

\* i64::rem_euclid
RemEuclid(a, b) == a % b

(***************************************************************************)
(* Day 1: the dial                                                         *)
(***************************************************************************)
DialSize == 100

\* the match with every first character other than L taken for R
MultiplierRightUnlessL(rotation) ==
    IF rotation # <<>> /\ rotation[1] = "L" THEN -1 ELSE 1

\* The match on chars.next(): -1 for L, 1 for R, 0 stands for the panic arm
Multiplier(rotation) ==
    IF rotation = <<>> THEN 0
    ELSE IF rotation[1] = "L" THEN -1
    ELSE IF rotation[1] = "R" THEN 1
    ELSE 0

\* chars.as_str().parse::<u64>(): the text left after chars.next()
Dist(rotation) == ParseU64(IF rotation = <<>> THEN <<>> ELSE Tail(rotation))

\* puzzle1 without the "+ 100": a left turn past 0 leaves a negative position
Puzzle1PosNoLift(pos, multiplier, dist) ==
    RemTrunc(pos + multiplier * dist, DialSize)

\* puzzle1, line 44: the position after one rotation
Puzzle1Pos(pos, multiplier, dist) ==
    RemTrunc(RemTrunc(pos + multiplier * dist, DialSize) + DialSize, DialSize)

\* puzzle2 with the left-turn test off by one (a landing on 0 is missed)
Puzzle2MissLanding(pos, multiplier, dist) ==
    LET quot == dist \div DialSize
        rem  == dist % DialSize
    IN  quot + (IF pos # 0
                   /\ (\/ (multiplier = -1 /\ rem > pos)
                       \/ (multiplier = 1 /\ pos + rem >= DialSize))
                THEN 1 ELSE 0)

\* puzzle2 without the full turns: the test on the remainder alone
Puzzle2RemainderOnly(pos, multiplier, dist) ==
    LET rem == dist % DialSize
    IN  IF pos # 0
           /\ (\/ (multiplier = -1 /\ rem >= pos)
               \/ (multiplier = 1 /\ pos + rem >= DialSize))
        THEN 1 ELSE 0

\* puzzle2, lines 89-95: the zero crossings one rotation adds
Puzzle2Crossings(pos, multiplier, dist) ==
    LET quot == dist \div DialSize
        rem  == dist % DialSize
    IN  quot + (IF pos # 0
                   /\ (\/ (multiplier = -1 /\ rem >= pos)
                       \/ (multiplier = 1 /\ pos + rem >= DialSize))
                THEN 1 ELSE 0)

\* puzzle2, line 96: the position after one rotation
Puzzle2Pos(pos, multiplier, dist) ==
    RemEuclid(pos + multiplier * (dist % DialSize), DialSize)

\* ---- inputs ----
MaxRotations == 2
MaxDist == 299
DistPool == {0, 1, 50, 100, MaxDist}
Rot(dir, n) == <<dir>> \o U64ToString(n)
WellFormedRotations == {Rot(dir, n) : dir \in {"L", "R"}, n \in DistPool}
MalformedRotations == {<<"X", "5">>, <<"L">>, <<"R", "-", "1">>}
RotationPool == WellFormedRotations \cup MalformedRotations
RotationLists == UNION {[1..n -> RotationPool] : n \in 0..MaxRotations}
\* init_pos is a u8: every dial position, and two values off the dial
InitPositions == (0..(DialSize - 1)) \cup {DialSize, 255}

InitDay1 ==
    /\ idle1
    /\ d1_fn \in {"puzzle1", "puzzle2"}
    /\ init_pos \in InitPositions
    /\ rotations \in RotationLists
    /\ d1_next = 1
    /\ curr_pos = 0
    /\ zero_count = 0
    /\ d1_pc = "start"

\* lines 24-28 / 69-73: the range check and the locals
D1Enter ==
    /\ d1_pc = "start"
    /\ init_pos <= DialSize - 1
    /\ curr_pos' = init_pos
    /\ zero_count' = 0
    /\ d1_pc' = "loop"
    /\ UNCHANGED <<d1_fn, init_pos, rotations, d1_next>>
    /\ UNCHANGED others1

\* lines 24-26 / 69-71: panic!("the initial position must be within 0 to 99")
D1PanicInitPos ==
    /\ d1_pc = "start"
    /\ init_pos > DialSize - 1
    /\ d1_pc' = "panic"
    /\ UNCHANGED <<d1_fn, init_pos, rotations, d1_next, curr_pos, zero_count>>
    /\ UNCHANGED others1

\* lines 38, 43 / 83, 88: a rotation that is not L or R plus a u64 panics
D1PanicRotation ==
    /\ d1_pc = "loop"
    /\ d1_next <= Len(rotations)
    /\ \/ Multiplier(rotations[d1_next]) = 0
       \/ ~Dist(rotations[d1_next]).ok
    /\ d1_pc' = "panic"
    /\ UNCHANGED <<d1_fn, init_pos, rotations, d1_next, curr_pos, zero_count>>
    /\ UNCHANGED others1

\* puzzle1, lines 29-48: one iteration of the for loop
Puzzle1Rotate ==
    /\ d1_pc = "loop"
    /\ d1_fn = "puzzle1"
    /\ d1_next <= Len(rotations)
    /\ Multiplier(rotations[d1_next]) # 0
    /\ Dist(rotations[d1_next]).ok
    /\ LET m == Multiplier(rotations[d1_next])
           d == Dist(rotations[d1_next]).val
           p == Puzzle1Pos(curr_pos, m, d)
       IN  /\ curr_pos' = p
           /\ zero_count' = IF p = 0 THEN zero_count + 1 ELSE zero_count
    /\ d1_next' = d1_next + 1
    /\ UNCHANGED <<d1_fn, init_pos, rotations, d1_pc>>
    /\ UNCHANGED others1

\* puzzle2, lines 74-97: one iteration of the for loop
Puzzle2Rotate ==
    /\ d1_pc = "loop"
    /\ d1_fn = "puzzle2"
    /\ d1_next <= Len(rotations)
    /\ Multiplier(rotations[d1_next]) # 0
    /\ Dist(rotations[d1_next]).ok
    /\ LET m == Multiplier(rotations[d1_next])
           d == Dist(rotations[d1_next]).val
       IN  /\ zero_count' = zero_count + Puzzle2Crossings(curr_pos, m, d)
           /\ curr_pos' = Puzzle2Pos(curr_pos, m, d)
    /\ d1_next' = d1_next + 1
    /\ UNCHANGED <<d1_fn, init_pos, rotations, d1_pc>>
    /\ UNCHANGED others1

\* lines 49 / 98: the loop is over, zero_count is returned
D1Return ==
    /\ d1_pc = "loop"
    /\ d1_next > Len(rotations)
    /\ d1_pc' = "done"
    /\ UNCHANGED <<d1_fn, init_pos, rotations, d1_next, curr_pos, zero_count>>
    /\ UNCHANGED others1

NextDay1 ==
    \/ D1Enter
    \/ D1PanicInitPos
    \/ D1PanicRotation
    \/ Puzzle1Rotate
    \/ Puzzle2Rotate
    \/ D1Return

(***************************************************************************)
(* Day 1: what the dial is meant to do, stated without the code's          *)
(* arithmetic: a rotation of distance d is d single clicks.                *)
(***************************************************************************)
\* The direction and distance a well-formed rotation was written from
RefStep(rotation) == IF rotation[1] = "L" THEN -1 ELSE 1
RefDist(rotation) == CHOOSE n \in DistPool : U64ToString(n) = Tail(rotation)

\* The clicks of one rotation (1..d) after which the dial points at 0
ZeroClicks(pos, step, d) ==
    Cardinality({k \in 1..d : (pos + step * k) % DialSize = 0})

\* The dial position after all the rotations of rots, starting at pos
RECURSIVE DialAfter(_, _)
DialAfter(pos, rots) ==
    IF rots = <<>> THEN pos
    ELSE LET before == DialAfter(pos, SubSeq(rots, 1, Len(rots) - 1))
             last == rots[Len(rots)]
         IN  (before + RefStep(last) * RefDist(last)) % DialSize

\* The clicks, over all of rots, after which the dial points at 0
RECURSIVE ClicksAtZero(_, _)
ClicksAtZero(pos, rots) ==
    IF rots = <<>> THEN 0
    ELSE LET front == SubSeq(rots, 1, Len(rots) - 1)
             last == rots[Len(rots)]
         IN  ClicksAtZero(pos, front)
               + ZeroClicks(DialAfter(pos, front), RefStep(last), RefDist(last))

\* The rotations of rots after which the dial points at 0
RECURSIVE LandingsAtZero(_, _)
LandingsAtZero(pos, rots) ==
    IF rots = <<>> THEN 0
    ELSE LandingsAtZero(pos, SubSeq(rots, 1, Len(rots) - 1))
           + (IF DialAfter(pos, rots) = 0 THEN 1 ELSE 0)

\* The rotations the for loop has consumed so far
Consumed == SubSeq(rotations, 1, d1_next - 1)

\* C2: puzzle2's count, after every rotation and when it returns, is the
\* number of single clicks so far after which the dial pointed at 0, each
\* rotation being simulated as unit steps modulo 100.
C2_Puzzle2CountsEveryClickAtZero ==
    (d1_fn = "puzzle2" /\ d1_pc \in {"loop", "done"})
        => /\ zero_count = ClicksAtZero(init_pos, Consumed)
           /\ curr_pos = DialAfter(init_pos, Consumed)

\* A returned puzzle2 run of two rotations with several laps that ends on 0
C2_Witness ==
    /\ d1_fn = "puzzle2"
    /\ d1_pc = "done"
    /\ Len(rotations) = 2
    /\ RefStep(rotations[1]) = -1
    /\ RefDist(rotations[2]) > DialSize
    /\ zero_count >= 4
    /\ curr_pos = 0

\* C10: in puzzle1 the position after each rotation is the previous position
\* minus or plus the distance, reduced into 0..99, and the count is the
\* number of rotations after which that position is 0.
C10_Puzzle1CountsLandingsAtZero ==
    (d1_fn = "puzzle1" /\ d1_pc \in {"loop", "done"})
        => /\ curr_pos \in 0..(DialSize - 1)
           /\ curr_pos = DialAfter(init_pos, Consumed)
           /\ zero_count = LandingsAtZero(init_pos, Consumed)

\* A returned puzzle1 run that turned left past 0 and landed on 0 twice
C10_Witness ==
    /\ d1_fn = "puzzle1"
    /\ d1_pc = "done"
    /\ Len(rotations) = 2
    /\ RefStep(rotations[1]) = -1
    /\ RefDist(rotations[1]) > init_pos
    /\ zero_count = 2

(***************************************************************************)
(* Day 2: the repeated-digit IDs (src/src/solutions/day2.rs)               *)
(***************************************************************************)
\* The index of the first occurrence of character c in s, 0 when there is none
FirstIndexOf(s, c) ==
    IF \E k \in 1..Len(s) : s[k] = c
    THEN CHOOSE k \in 1..Len(s) : s[k] = c /\ \A m \in 1..(k - 1) : s[m] # c
    ELSE 0

\* str::split(c): the pieces between the occurrences of c (an empty string
\* gives one empty piece)
RECURSIVE Split(_, _)
Split(s, c) ==
    LET k == FirstIndexOf(s, c)
    IN  IF k = 0 THEN <<s>>
        ELSE <<SubSeq(s, 1, k - 1)>> \o Split(SubSeq(s, k + 1, Len(s)), c)

\* str::starts_with(c)
StartsWith(s, c) == s # <<>> /\ s[1] = c

\* NumberRange::from_str without the ordering check
FromStrAnyOrder(str) ==
    LET k == FirstIndexOf(str, "-")
        from_str == SubSeq(str, 1, k - 1)
        to_str == SubSeq(str, k + 1, Len(str))
        from == ParseU64(from_str)
        to == ParseU64(to_str)
    IN  IF k = 0 THEN [ok |-> FALSE, from |-> 0, to |-> 0]
        ELSE IF StartsWith(from_str, "0") \/ StartsWith(to_str, "0")
        THEN [ok |-> FALSE, from |-> 0, to |-> 0]
        ELSE IF ~from.ok \/ ~to.ok THEN [ok |-> FALSE, from |-> 0, to |-> 0]
        ELSE [ok |-> TRUE, from |-> from.val, to |-> to.val]

\* NumberRange::from_str, lines 91-109: split_once("-"), the leading-zero
\* test, the two parses and the ordering test
FromStr(str) ==
    LET k == FirstIndexOf(str, "-")
        from_str == SubSeq(str, 1, k - 1)
        to_str == SubSeq(str, k + 1, Len(str))
        from == ParseU64(from_str)
        to == ParseU64(to_str)
    IN  IF k = 0 THEN [ok |-> FALSE, from |-> 0, to |-> 0]
        ELSE IF StartsWith(from_str, "0") \/ StartsWith(to_str, "0")
        THEN [ok |-> FALSE, from |-> 0, to |-> 0]
        ELSE IF ~from.ok \/ ~to.ok THEN [ok |-> FALSE, from |-> 0, to |-> 0]
        ELSE IF to.val <= from.val THEN [ok |-> FALSE, from |-> 0, to |-> 0]
        ELSE [ok |-> TRUE, from |-> from.val, to |-> to.val]

\* u64::checked_ilog10().unwrap_or(0) + 1: the number of decimal digits
RECURSIVE Ilog10(_)
Ilog10(n) == IF n < 10 THEN 0 ELSE 1 + Ilog10(n \div 10)
DigitCount(n) == Ilog10(n) + 1

\* 10_u64.pow(e)
RECURSIVE Pow10(_)
Pow10(e) == IF e = 0 THEN 1 ELSE 10 * Pow10(e - 1)

\* puzzle1 with the shortcut taken on the first endpoint alone
SkipsOddFrom(from, to) == DigitCount(from) % 2 # 0

\* puzzle1, lines 28-32: the range is skipped when both endpoints have the
\* same odd number of digits
SkipsRange(from, to) ==
    DigitCount(from) = DigitCount(to) /\ DigitCount(from) % 2 # 0

\* puzzle1, lines 35-46: whether i is added to the sum
Puzzle1Counts(i) ==
    LET len == DigitCount(i)
        oe_half_len == Pow10(len \div 2)
    IN  /\ len % 2 = 0
        /\ i \div oe_half_len = i % oe_half_len

\* str::contains: needle occurs in hay as a contiguous substring
Contains(hay, needle) ==
    \E off \in 0..(Len(hay) - Len(needle)) :
        \A k \in 1..Len(needle) : hay[off + k] = needle[k]

\* puzzle2 with only the last character of the doubled string removed
Puzzle2CountsUntrimmed(i) ==
    LET i_str == U64ToString(i)
        concat_str == i_str \o i_str
    IN  Contains(SubSeq(concat_str, 1, Len(concat_str) - 1), i_str)

\* puzzle2, lines 77-79: whether i is added to the sum
Puzzle2Counts(i) ==
    LET i_str == U64ToString(i)
        concat_str == i_str \o i_str
    IN  Contains(SubSeq(concat_str, 2, Len(concat_str) - 1), i_str)

\* ---- inputs ----
MaxRanges == 2
\* the end of the long range 1-LongRangeEnd, and the ends of the short ones
LongRangeEnd == 1250
RangeStr(from, to) == U64ToString(from) \o <<"-">> \o U64ToString(to)
ValidRanges ==
    {RangeStr(1, LongRangeEnd), RangeStr(95, 115), RangeStr(100, 130),
     RangeStr(998, 1012), RangeStr(121208, 121215), RangeStr(222220, 222224),
     RangeStr(999998, 1000002)}
BadRanges ==
    {<<"i", "n", "v">>, <<"1", "-">>, <<"0", "1", "-", "2">>, <<"2", "2", "-", "1", "1">>,
     <<"7", "-", "7">>, <<"1", "-", "2", "-", "3">>}
RangePool == ValidRanges \cup BadRanges
RECURSIVE Join(_, _)
Join(items, c) ==
    IF Len(items) = 1 THEN items[1]
    ELSE items[1] \o <<c>> \o Join(Tail(items), c)
D2Inputs ==
    {<<>>} \cup {Join(items, ",") : items \in UNION {[1..n -> RangePool] : n \in 1..MaxRanges}}

InitDay2 ==
    /\ idle2
    /\ d2_fn \in {"puzzle1", "puzzle2"}
    /\ d2_input \in D2Inputs
    /\ ranges = <<>>
    /\ d2_next = 1
    /\ range = <<0, 0>>
    /\ d2_i = 0
    /\ sum = 0
    /\ d2_pc = "split"

\* lines 21-22 / 70-71: sum = 0 and the split at the commas
D2Split ==
    /\ d2_pc = "split"
    /\ ranges' = Split(d2_input, ",")
    /\ sum' = 0
    /\ d2_pc' = "ranges"
    /\ UNCHANGED <<d2_fn, d2_input, d2_next, range, d2_i>>
    /\ UNCHANGED others2

\* from_str fails and the sum so far is returned
D2ReturnAtMalformed ==
    /\ d2_pc = "ranges"
    /\ d2_next <= Len(ranges)
    /\ ~FromStr(ranges[d2_next]).ok
    /\ d2_pc' = "done"
    /\ UNCHANGED <<d2_fn, d2_input, ranges, d2_next, range, d2_i, sum>>
    /\ UNCHANGED others2

\* lines 24-27 / 73-75: from_str fails and the range_str is skipped
D2SkipMalformed ==
    /\ d2_pc = "ranges"
    /\ d2_next <= Len(ranges)
    /\ ~FromStr(ranges[d2_next]).ok
    /\ d2_next' = d2_next + 1
    /\ UNCHANGED <<d2_fn, d2_input, ranges, range, d2_i, sum, d2_pc>>
    /\ UNCHANGED others2

\* puzzle1, lines 28-32: both endpoints have the same odd digit count
Puzzle1SkipOdd ==
    /\ d2_pc = "ranges"
    /\ d2_fn = "puzzle1"
    /\ d2_next <= Len(ranges)
    /\ FromStr(ranges[d2_next]).ok
    /\ SkipsRange(FromStr(ranges[d2_next]).from, FromStr(ranges[d2_next]).to)
    /\ d2_next' = d2_next + 1
    /\ UNCHANGED <<d2_fn, d2_input, ranges, range, d2_i, sum, d2_pc>>
    /\ UNCHANGED others2

\* lines 24, 34 / 73, 76: from_str succeeds and the loop over the range starts
D2EnterRange ==
    /\ d2_pc = "ranges"
    /\ d2_next <= Len(ranges)
    /\ FromStr(ranges[d2_next]).ok
    /\ d2_fn = "puzzle1"
          => ~SkipsRange(FromStr(ranges[d2_next]).from, FromStr(ranges[d2_next]).to)
    /\ range' = <<FromStr(ranges[d2_next]).from, FromStr(ranges[d2_next]).to>>
    /\ d2_i' = FromStr(ranges[d2_next]).from
    /\ d2_pc' = "numbers"
    /\ UNCHANGED <<d2_fn, d2_input, ranges, d2_next, sum>>
    /\ UNCHANGED others2

\* puzzle1, lines 34-49: one iteration of the loop over the range
Puzzle1Number ==
    /\ d2_pc = "numbers"
    /\ d2_fn = "puzzle1"
    /\ d2_i <= range[2]
    /\ sum' = IF Puzzle1Counts(d2_i) THEN sum + d2_i ELSE sum
    /\ d2_i' = d2_i + 1
    /\ UNCHANGED <<d2_fn, d2_input, ranges, d2_next, range, d2_pc>>
    /\ UNCHANGED others2

\* puzzle2, lines 76-82: one iteration of the loop over the range
Puzzle2Number ==
    /\ d2_pc = "numbers"
    /\ d2_fn = "puzzle2"
    /\ d2_i <= range[2]
    /\ sum' = IF Puzzle2Counts(d2_i) THEN sum + d2_i ELSE sum
    /\ d2_i' = d2_i + 1
    /\ UNCHANGED <<d2_fn, d2_input, ranges, d2_next, range, d2_pc>>
    /\ UNCHANGED others2

\* lines 34, 49 / 76, 82: the range is exhausted, on to the next range_str
D2RangeDone ==
    /\ d2_pc = "numbers"
    /\ d2_i > range[2]
    /\ d2_next' = d2_next + 1
    /\ d2_pc' = "ranges"
    /\ UNCHANGED <<d2_fn, d2_input, ranges, range, d2_i, sum>>
    /\ UNCHANGED others2

\* lines 51 / 84: sum is returned
D2Return ==
    /\ d2_pc = "ranges"
    /\ d2_next > Len(ranges)
    /\ d2_pc' = "done"
    /\ UNCHANGED <<d2_fn, d2_input, ranges, d2_next, range, d2_i, sum>>
    /\ UNCHANGED others2

NextDay2 ==
    \/ D2Split
    \/ D2SkipMalformed
    \/ Puzzle1SkipOdd
    \/ D2EnterRange
    \/ Puzzle1Number
    \/ Puzzle2Number
    \/ D2RangeDone
    \/ D2Return


(***************************************************************************)
(* Day 2: which numbers are meant to be summed, stated on the decimal      *)
(* digits of a number                                                      *)
(***************************************************************************)
\* The decimal digits of n >= 1, most significant first
Decimal(n) ==
    LET len == CHOOSE l \in 1..10 : 10^(l - 1) <= n /\ n < 10^l
    IN  [k \in 1..len |-> (n \div 10^(len - k)) % 10]

\* s is some block of digits repeated k >= 2 times
IsRepeatedBlock(s) ==
    \E b \in 1..(Len(s) - 1) :
        /\ Len(s) % b = 0
        /\ \A k \in 1..Len(s) : s[k] = s[((k - 1) % b) + 1]

\* s has even length and its first half equals its second half
IsBlockTwice(s) ==
    /\ Len(s) % 2 = 0
    /\ \A k \in 1..(Len(s) \div 2) : s[k] = s[k + (Len(s) \div 2)]

RECURSIVE SetSum(_)
SetSum(S) ==
    IF S = {} THEN 0
    ELSE LET x == CHOOSE x \in S : TRUE IN x + SetSum(S \ {x})

\* The sum of the repeated-block numbers of the accepted ranges among strs
RECURSIVE RepeatedBlockSum(_)
RepeatedBlockSum(strs) ==
    IF strs = <<>> THEN 0
    ELSE LET r == FromStr(strs[Len(strs)])
         IN  RepeatedBlockSum(SubSeq(strs, 1, Len(strs) - 1))
               + (IF r.ok
                  THEN SetSum({n \in r.from..r.to : IsRepeatedBlock(Decimal(n))})
                  ELSE 0)

\* The sum of the block-twice numbers of the accepted ranges among strs
RECURSIVE BlockTwiceSum(_)
BlockTwiceSum(strs) ==
    IF strs = <<>> THEN 0
    ELSE LET r == FromStr(strs[Len(strs)])
         IN  BlockTwiceSum(SubSeq(strs, 1, Len(strs) - 1))
               + (IF r.ok
                  THEN SetSum({n \in r.from..r.to : IsBlockTwice(Decimal(n))})
                  ELSE 0)

\* C3: puzzle2's sum is, over every accepted range and every n in it, the sum
\* of the n whose decimal digits are a block repeated at least twice; the
\* self-concatenation test accepts exactly those n (no single-digit n).
C3_Puzzle2SumsRepeatedBlocks ==
    d2_fn = "puzzle2" =>
        /\ (d2_pc = "numbers" /\ d2_i <= range[2])
              => (Puzzle2Counts(d2_i) <=> IsRepeatedBlock(Decimal(d2_i)))
        /\ d2_pc \in {"ranges", "done"}
              => sum = RepeatedBlockSum(SubSeq(ranges, 1, d2_next - 1))

\* A returned puzzle2 run over 1-1250 and 121208-121215: single digits,
\* blocks repeated twice, three and four times
C3_Witness ==
    /\ d2_fn = "puzzle2"
    /\ d2_pc = "done"
    /\ Len(ranges) = 2
    /\ FromStr(ranges[1]).ok /\ FromStr(ranges[1]).from = 1
    /\ FromStr(ranges[2]).ok /\ FromStr(ranges[2]).from = 121208
    /\ sum > 121212 + 1111 + 999

\* C9: puzzle1's sum is, over every accepted range and every n in it, the sum
\* of the n of even length whose first half of digits equals the second half;
\* the ranges skipped for their odd digit count hold no such n.
C9_Puzzle1SumsBlockTwice ==
    d2_fn = "puzzle1" =>
        /\ (d2_pc = "numbers" /\ d2_i <= range[2])
              => (Puzzle1Counts(d2_i) <=> IsBlockTwice(Decimal(d2_i)))
        /\ d2_pc \in {"ranges", "done"}
              => sum = BlockTwiceSum(SubSeq(ranges, 1, d2_next - 1))

\* A returned puzzle1 run that enumerated 95-115 and skipped 100-130
C9_Witness ==
    /\ d2_fn = "puzzle1"
    /\ d2_pc = "done"
    /\ Len(ranges) = 2
    /\ FromStr(ranges[1]).ok /\ FromStr(ranges[1]).from = 95
    /\ FromStr(ranges[2]).ok
    /\ SkipsRange(FromStr(ranges[2]).from, FromStr(ranges[2]).to)
    /\ sum = 99

(***************************************************************************)
(* Day 3: the battery banks (src/src/solutions/day3.rs)                    *)
(***************************************************************************)
BATTERY_BANK_SIZE == 12

\* A u128 too wide for the checker's integers is kept as two limbs,
\* value = hi * Limb + lo, with 0 <= lo < Limb.
LimbDigits == 6
Limb == 1000000

\* str::parse::<u128>() on a string of decimal digits
ParseU128(s) ==
    IF Len(s) <= LimbDigits
    THEN [hi |-> 0, lo |-> DigitsValue(s)]
    ELSE [hi |-> DigitsValue(SubSeq(s, 1, Len(s) - LimbDigits)),
          lo |-> DigitsValue(SubSeq(s, Len(s) - LimbDigits + 1, Len(s)))]

\* u128 addition
AddU128(a, b) ==
    [hi |-> a.hi + b.hi + ((a.lo + b.lo) \div Limb),
     lo |-> (a.lo + b.lo) % Limb]

\* Iterator::sum() over u128
RECURSIVE SumU128(_)
SumU128(nums) ==
    IF nums = <<>> THEN [hi |-> 0, lo |-> 0]
    ELSE AddU128(SumU128(SubSeq(nums, 1, Len(nums) - 1)), nums[Len(nums)])

\* s.chars().filter_map(|c| c.to_digit(10)).collect(): the digits of a line
RECURSIVE LineDigits(_)
LineDigits(line) ==
    IF line = <<>> THEN <<>>
    ELSE (IF IsDigitChar(line[1]) THEN <<DigitVal(line[1])>> ELSE <<>>)
           \o LineDigits(Tail(line))

\* arr.iter().map(|&num| num.to_string()).collect::<String>()
ArrString(arr) == [k \in 1..Len(arr) |-> DigitChars[arr[k] + 1]]

\* puzzle2, lines 77-84: dx_max_i[j] for 0-based j
DxMaxI(j, last_i) ==
    LET max == last_i - (BATTERY_BANK_SIZE - j - 1)
    IN  IF max >= 0 THEN max ELSE 0

\* puzzle2, lines 88-96: the inner loop from 0-based slot j on, for the digit
\* at 0-based index i; the result is arr after the loop ("continue 'outer"
\* ends it)
RECURSIVE InnerLoop(_, _, _, _, _)
InnerLoop(arr, digit, i, last_i, j) ==
    IF j > BATTERY_BANK_SIZE - 1 THEN arr
    ELSE IF digit > arr[j + 1] /\ i <= DxMaxI(j, last_i)
         THEN IF j < BATTERY_BANK_SIZE - 1
              THEN [arr EXCEPT ![j + 1] = digit, ![j + 2] = 0]
              ELSE InnerLoop([arr EXCEPT ![j + 1] = digit], digit, i, last_i, j + 1)
         ELSE InnerLoop(arr, digit, i, last_i, j + 1)

\* puzzle2, lines 86-97: the outer loop from 0-based index i on
RECURSIVE OuterLoop(_, _, _)
OuterLoop(arr, digits, i) ==
    IF i > Len(digits) - 1 THEN arr
    ELSE OuterLoop(InnerLoop(arr, digits[i + 1], i, Len(digits) - 1, 0),
                   digits, i + 1)

\* puzzle2, lines 70-105: the closure's number for one line with a digit
Puzzle2Closure(line) ==
    LET digits == LineDigits(line)
        arr == OuterLoop([k \in 1..BATTERY_BANK_SIZE |-> 0], digits, 0)
    IN  ParseU128(ArrString(arr))

\* ---- inputs ----
MaxLines == 2
HeadLen == 4
MaxFill == 11
Heads == [1..HeadLen -> {"0", "1", "2"}]
Fill(c, n) == [k \in 1..n |-> c]
BankLines ==
    {h \o Fill(c, n) :
        h \in Heads, c \in {"0", "1"}, n \in {BATTERY_BANK_SIZE - HeadLen, MaxFill}}
\* lines that hold other characters between the digits
MixedLines == {<<"x">> \o Fill("1", HeadLen) \o <<"2", " ">> \o Fill("0", MaxFill),
               <<"2", "-">> \o Fill("1", MaxFill)}
\* a line without any digit: digits.len()-1 underflows
BlankLines == {<<>>}
D3Inputs ==
    UNION {[1..n -> BankLines \cup MixedLines \cup BlankLines] : n \in 1..MaxLines}

InitDay3 ==
    /\ idle3
    /\ d3_input \in D3Inputs
    /\ d3_next = 1
    /\ d3_nums = <<>>
    /\ d3_sum = [hi |-> 0, lo |-> 0]
    /\ d3_pc = "lines"

\* lines 70-105: the closure runs on the next line
Puzzle2Line ==
    /\ d3_pc = "lines"
    /\ d3_next <= Len(d3_input)
    /\ LineDigits(d3_input[d3_next]) # <<>>
    /\ d3_nums' = Append(d3_nums, Puzzle2Closure(d3_input[d3_next]))
    /\ d3_next' = d3_next + 1
    /\ UNCHANGED <<d3_input, d3_sum, d3_pc>>
    /\ UNCHANGED others3

\* line 76: digits.len()-1 on a line without digits: the subtraction panics
\* where overflow is checked, and digits[0] panics where it wraps
D3PanicNoDigits ==
    /\ d3_pc = "lines"
    /\ d3_next <= Len(d3_input)
    /\ LineDigits(d3_input[d3_next]) = <<>>
    /\ d3_pc' = "panic"
    /\ UNCHANGED <<d3_input, d3_next, d3_nums, d3_sum>>
    /\ UNCHANGED others3

\* lines 106-107: .map(u128::from).sum() once the lines are exhausted
D3Sum ==
    /\ d3_pc = "lines"
    /\ d3_next > Len(d3_input)
    /\ d3_sum' = SumU128(d3_nums)
    /\ d3_pc' = "done"
    /\ UNCHANGED <<d3_input, d3_next, d3_nums>>
    /\ UNCHANGED others3

NextDay3 ==
    \/ Puzzle2Line
    \/ D3PanicNoDigits
    \/ D3Sum

(***************************************************************************)
(* Day 3: the largest number a line can form                               *)
(***************************************************************************)
\* Of two digit sequences of equal length, the one that is the larger number
LargerDigits(a, b) ==
    IF \E k \in 1..Len(a) :
            /\ a[k] > b[k]
            /\ \A m \in 1..(k - 1) : a[m] = b[m]
    THEN a ELSE b

\* The largest k-digit subsequence of ds (every choice of taking or skipping
\* the first digit is tried)
RECURSIVE BestSubsequence(_, _)
BestSubsequence(ds, k) ==
    IF k = 0 THEN <<>>
    ELSE IF Len(ds) = k THEN ds
    ELSE LargerDigits(<<ds[1]>> \o BestSubsequence(Tail(ds), k - 1),
                      BestSubsequence(Tail(ds), k))

\* The number a sequence of at most 12 digits denotes
DigitsNumber(ds) ==
    LET Val[n \in 0..Len(ds)] == IF n = 0 THEN 0 ELSE 10 * Val[n - 1] + ds[n]
        cut == IF Len(ds) > LimbDigits THEN Len(ds) - LimbDigits ELSE 0
        Low[n \in cut..Len(ds)] == IF n = cut THEN 0 ELSE 10 * Low[n - 1] + ds[n]
    IN  [hi |-> Val[cut], lo |-> Low[Len(ds)]]

\* C1: for every line with at least 12 decimal digits (0-9) the number
\* produced is the largest 12-digit subsequence of the line, and the result
\* is the sum of the numbers of the lines.
C1_Puzzle2TakesLargestSubsequence ==
    /\ \A k \in 1..Len(d3_nums) :
          Len(LineDigits(d3_input[k])) >= BATTERY_BANK_SIZE
            => d3_nums[k] = DigitsNumber(
                   BestSubsequence(LineDigits(d3_input[k]), BATTERY_BANK_SIZE))
    /\ d3_pc = "done" => d3_sum = SumU128(d3_nums)

\* Day 3, what holds of the code: the same for lines whose digits are all 1-9
Day3NonZeroLinesTakeLargest ==
    \A k \in 1..Len(d3_nums) :
        (/\ Len(LineDigits(d3_input[k])) >= BATTERY_BANK_SIZE
         /\ \A m \in 1..Len(LineDigits(d3_input[k])) : LineDigits(d3_input[k])[m] # 0)
          => d3_nums[k] = DigitsNumber(
                 BestSubsequence(LineDigits(d3_input[k]), BATTERY_BANK_SIZE))


(***************************************************************************)
(* Day 4: the paper rolls (src/src/solutions/day4.rs)                      *)
(***************************************************************************)
\* lines 25-34 / 88-97: the offsets (row_offset, col_offset) to check
check_coordinates ==
    << <<0, 1>>, <<0, -1>>, <<1, 0>>, <<-1, 0>>,
       <<-1, 1>>, <<1, 1>>, <<-1, -1>>, <<1, -1>> >>

\* lines 36 / 99: len_i
LenI(m) == Len(m)
\* lines 40 / 103: len_j
LenJ(m) == IF m = <<>> THEN 0 ELSE Len(m[1])

\* lines 47-57 / 113-123: count for cell (i, j) (from 0), over grid m
RECURSIVE CountFrom(_, _, _, _)
CountFrom(m, i, j, c) ==
    IF c > Len(check_coordinates) THEN 0
    ELSE LET i2 == i + check_coordinates[c][1]
             j2 == j + check_coordinates[c][2]
         IN  (IF i2 < 0 \/ i2 >= LenI(m) \/ j2 < 0 \/ j2 >= LenJ(m)
              THEN 0
              ELSE IF m[i2 + 1][j2 + 1] = "@" THEN 1 ELSE 0)
               + CountFrom(m, i, j, c + 1)

\* the count without the first of the offsets
CountWithoutFirst(m, i, j) == CountFrom(m, i, j, 2)

\* lines 46-57 / 112-123: count, from the first offset on
Count(m, i, j) == CountFrom(m, i, j, 1)

\* the threshold one lower
RemovesBelow3(count) == count < 3

\* lines 58 / 124: if count < 4
Removes(count) == count < 4

\* puzzle2 counting on the grid it is writing to
CountedGridInPlace == temp_matrix

\* puzzle2, lines 110, 120: the grid the pass reads
CountedGrid == matrix

\* ---- inputs ----
\* grids of 1..MaxSide rows and Width columns, every row from RowPool
MaxSide == 4
Width == MaxSide + 1
FullRow == [k \in 1..Width |-> "@"]
BlankRow == [k \in 1..Width |-> "."]
NotLastRow == [k \in 1..Width |-> IF k < Width THEN "@" ELSE "."]
CoreRow == [k \in 1..Width |-> IF k > 1 /\ k < Width - 1 THEN "@" ELSE "."]
CoreAndLastRow == [k \in 1..Width |-> IF k = Width THEN "@" ELSE CoreRow[k]]
RowPool == {FullRow, BlankRow, NotLastRow, CoreRow, CoreAndLastRow}
Grids == UNION {[1..n -> RowPool] : n \in 1..MaxSide}
\* an input without a line
EmptyInputs == {<<>>}

InitDay4 ==
    /\ idle4
    /\ d4_fn \in {"puzzle1", "puzzle2"}
    /\ d4_input \in Grids \cup EmptyInputs
    /\ matrix = <<>>
    /\ temp_matrix = <<>>
    /\ final_count = 0
    /\ keep_checking = FALSE
    /\ d4_i = 0
    /\ d4_j = 0
    /\ d4_pc = "start"
    /\ d4_passes = 0

\* lines 18-22, 36 / 79-85, 99: the locals
D4Enter ==
    /\ d4_pc = "start"
    /\ LenI(d4_input) # 0
    /\ matrix' = d4_input
    /\ temp_matrix' = IF d4_fn = "puzzle2" THEN d4_input ELSE <<>>
    /\ final_count' = 0
    /\ keep_checking' = (d4_fn = "puzzle2")
    /\ d4_i' = 0
    /\ d4_j' = 0
    /\ d4_pc' = IF d4_fn = "puzzle2" THEN "while" ELSE "cells"
    /\ UNCHANGED <<d4_fn, d4_input>>
    /\ UNCHANGED others4

\* lines 37-39 / 100-102: panic!("input may not be empty")
D4PanicEmpty ==
    /\ d4_pc = "start"
    /\ LenI(d4_input) = 0
    /\ d4_pc' = "panic"
    /\ UNCHANGED <<d4_fn, d4_input, matrix, temp_matrix, final_count,
                   keep_checking, d4_i, d4_j>>
    /\ UNCHANGED others4

\* puzzle1, lines 42-61: one iteration of the loop over j (and the step of i)
Puzzle1Cell ==
    /\ d4_pc = "cells"
    /\ d4_fn = "puzzle1"
    /\ d4_i < LenI(matrix)
    /\ final_count' =
          IF matrix[d4_i + 1][d4_j + 1] = "@" /\ Removes(Count(matrix, d4_i, d4_j))
          THEN final_count + 1 ELSE final_count
    /\ d4_j' = IF d4_j + 1 < LenJ(matrix) THEN d4_j + 1 ELSE 0
    /\ d4_i' = IF d4_j + 1 < LenJ(matrix) THEN d4_i ELSE d4_i + 1
    /\ UNCHANGED <<d4_fn, d4_input, matrix, temp_matrix, keep_checking, d4_pc>>
    /\ UNCHANGED others4

\* puzzle1, line 63: final_count is returned
Puzzle1Return ==
    /\ d4_pc = "cells"
    /\ d4_fn = "puzzle1"
    /\ d4_i >= LenI(matrix)
    /\ d4_pc' = "done"
    /\ UNCHANGED <<d4_fn, d4_input, matrix, temp_matrix, final_count,
                   keep_checking, d4_i, d4_j>>
    /\ UNCHANGED others4

\* puzzle2, lines 105-107: the while test is true and a pass starts
Puzzle2StartPass ==
    /\ d4_pc = "while"
    /\ keep_checking
    /\ keep_checking' = FALSE
    /\ d4_i' = 0
    /\ d4_j' = 0
    /\ d4_pc' = "cells"
    /\ d4_passes' = d4_passes + 1
    /\ UNCHANGED <<d4_fn, d4_input, matrix, temp_matrix, final_count>>
    /\ UNCHANGED others4pass

\* puzzle2, lines 108-129: one iteration of the loop over j (and the step of i)
Puzzle2Cell ==
    /\ d4_pc = "cells"
    /\ d4_fn = "puzzle2"
    /\ d4_i < LenI(matrix)
    /\ IF matrix[d4_i + 1][d4_j + 1] = "@" /\ Removes(Count(CountedGrid, d4_i, d4_j))
       THEN /\ final_count' = final_count + 1
            /\ temp_matrix' = [temp_matrix EXCEPT ![d4_i + 1][d4_j + 1] = "x"]
            /\ keep_checking' = TRUE
       ELSE UNCHANGED <<final_count, temp_matrix, keep_checking>>
    /\ d4_j' = IF d4_j + 1 < LenJ(matrix) THEN d4_j + 1 ELSE 0
    /\ d4_i' = IF d4_j + 1 < LenJ(matrix) THEN d4_i ELSE d4_i + 1
    /\ UNCHANGED <<d4_fn, d4_input, matrix, d4_pc>>
    /\ UNCHANGED others4

\* the pass is over and matrix stays as it was
Puzzle2EndPassKeepsMatrix ==
    /\ d4_pc = "cells"
    /\ d4_fn = "puzzle2"
    /\ d4_i >= LenI(matrix)
    /\ d4_pc' = "while"
    /\ UNCHANGED <<d4_fn, d4_input, matrix, temp_matrix, final_count, keep_checking,
                   d4_i, d4_j>>
    /\ UNCHANGED others4

\* puzzle2, line 131: the pass is over, matrix = temp_matrix.clone()
Puzzle2EndPass ==
    /\ d4_pc = "cells"
    /\ d4_fn = "puzzle2"
    /\ d4_i >= LenI(matrix)
    /\ matrix' = temp_matrix
    /\ d4_pc' = "while"
    /\ UNCHANGED <<d4_fn, d4_input, temp_matrix, final_count, keep_checking,
                   d4_i, d4_j>>
    /\ UNCHANGED others4

\* puzzle2, lines 105, 133: the while test is false, final_count is returned
Puzzle2Return ==
    /\ d4_pc = "while"
    /\ ~keep_checking
    /\ d4_pc' = "done"
    /\ UNCHANGED <<d4_fn, d4_input, matrix, temp_matrix, final_count,
                   keep_checking, d4_i, d4_j>>
    /\ UNCHANGED others4

NextDay4 ==
    \/ D4Enter
    \/ D4PanicEmpty
    \/ Puzzle1Cell
    \/ Puzzle1Return
    \/ Puzzle2StartPass
    \/ Puzzle2Cell
    \/ Puzzle2EndPass
    \/ Puzzle2Return

\* puzzle2 as a function of the grid: the count it returns on m
RECURSIVE Puzzle2On(_)
Puzzle2On(m) ==
    LET hits == {p \in (0..(LenI(m) - 1)) \X (0..(LenJ(m) - 1)) :
                    m[p[1] + 1][p[2] + 1] = "@" /\ Removes(Count(m, p[1], p[2]))}
    IN  IF hits = {} THEN 0
        ELSE Cardinality(hits)
               + Puzzle2On([i \in 1..LenI(m) |->
                              [j \in 1..LenJ(m) |->
                                  IF <<i - 1, j - 1>> \in hits THEN "x" ELSE m[i][j]]])

(***************************************************************************)
(* Day 4: the erosion, stated on the set of cells that hold a roll         *)
(***************************************************************************)
\* The cells (row, column, from 1) of m that hold '@'
Rolls(m) == {p \in (1..Len(m)) \X (1..LenJ(m)) : m[p[1]][p[2]] = "@"}

\* The cells of S next to p, diagonals included
Neighbours(S, p) ==
    {q \in S : q # p /\ q[1] - p[1] \in -1..1 /\ q[2] - p[2] \in -1..1}

\* The rolls one pass removes: those with fewer than 4 rolls next to them
Accessible(S) == {p \in S : Cardinality(Neighbours(S, p)) < 4}

\* The rolls left after a pass
AfterPass(S) == S \ Accessible(S)

\* The sets of rolls at the start of the passes, from S on
RECURSIVE Passes(_)
Passes(S) ==
    LET T == AfterPass(S)
    IN  IF T = S THEN {S} ELSE {S} \cup Passes(T)

\* The rolls removed by repeating the pass until it removes nothing
RECURSIVE RemovedInAll(_)
RemovedInAll(S) ==
    LET A == Accessible(S)
    IN  IF A = {} THEN 0 ELSE Cardinality(A) + RemovedInAll(S \ A)

\* C7: puzzle2 returns the number of rolls removed by repeated passes, each
\* pass removing at once every roll with fewer than 4 neighbouring rolls on
\* the grid as it was when the pass started, until a pass removes nothing.
C7_Puzzle2CountsSimultaneousPasses ==
    d4_fn = "puzzle2" =>
        /\ d4_pc = "while" =>
              /\ Rolls(matrix) \in Passes(Rolls(d4_input))
              /\ final_count = Cardinality(Rolls(d4_input) \ Rolls(matrix))
        /\ d4_pc = "cells" =>
              Rolls(temp_matrix) =
                  Rolls(matrix) \ {p \in Accessible(Rolls(matrix)) :
                                      p[1] < d4_i + 1 \/ (p[1] = d4_i + 1 /\ p[2] <= d4_j)}
        /\ d4_pc = "done" => final_count = RemovedInAll(Rolls(d4_input))

\* A returned puzzle2 run of two removing passes that left rolls standing
C7_Witness ==
    /\ d4_fn = "puzzle2"
    /\ d4_pc = "done"
    /\ Rolls(matrix) # {}
    /\ Rolls(matrix) = AfterPass(AfterPass(Rolls(d4_input)))
    /\ Rolls(matrix) # AfterPass(Rolls(d4_input))

\* C8: the grid at which puzzle2 stops holds no roll with fewer than 4
\* neighbouring rolls, and puzzle2 run on that grid returns 0.
C8_ErosionIsIdempotent ==
    (d4_fn = "puzzle2" /\ d4_pc = "done") =>
        /\ Accessible(Rolls(matrix)) = {}
        /\ Puzzle2On(matrix) = 0

\* A returned puzzle2 run that removed rolls and left rolls standing
C8_Witness ==
    /\ d4_fn = "puzzle2"
    /\ d4_pc = "done"
    /\ final_count > 0
    /\ Rolls(matrix) # {}
    /\ \E p \in Rolls(matrix) : Cardinality(Neighbours(Rolls(matrix), p)) = 4

(***************************************************************************)
(* Day 5: the intervals (src/src/solutions/day5.rs)                        *)
(***************************************************************************)
\* char::is_whitespace, on the characters the inputs hold
IsWhitespace(c) == c \in {" ", "\n", "\t", "\r"}

\* str::trim(): the text without its leading and trailing whitespace
RECURSIVE Trim(_)
Trim(s) ==
    IF s = <<>> THEN s
    ELSE IF IsWhitespace(s[1]) THEN Trim(Tail(s))
    ELSE IF IsWhitespace(s[Len(s)]) THEN Trim(SubSeq(s, 1, Len(s) - 1))
    ELSE s

\* str::split_once("\n\n"): the text before and after the first empty line
SplitOnce(s) ==
    LET hits == {k \in 1..(Len(s) - 1) : s[k] = "\n" /\ s[k + 1] = "\n"}
    IN  IF hits = {} THEN [ok |-> FALSE, before |-> <<>>, after |-> <<>>]
        ELSE LET k == CHOOSE k \in hits : \A h \in hits : k <= h
             IN  [ok |-> TRUE, before |-> SubSeq(s, 1, k - 1),
                  after |-> SubSeq(s, k + 2, Len(s))]

\* str::parse::<i64>(): an optional sign, then one or more decimal digits
ParseI64(s) ==
    IF s # <<>> /\ s[1] = "-"
    THEN LET body == ParseU64(Tail(s))
         IN  IF body.ok /\ Tail(s)[1] # "+"
             THEN [ok |-> TRUE, val |-> -body.val] ELSE [ok |-> FALSE, val |-> 0]
    ELSE ParseU64(s)

\* lines 56-72: parse_inclusive_range
parse_inclusive_range(s) ==
    LET parts == Split(s, "-")
    IN  IF Len(parts) # 2 THEN [ok |-> FALSE, start |-> 0, end |-> 0]
        ELSE LET start == ParseI64(Trim(parts[1]))
                 end == ParseI64(Trim(parts[2]))
             IN  IF ~start.ok \/ ~end.ok THEN [ok |-> FALSE, start |-> 0, end |-> 0]
                 ELSE [ok |-> TRUE, start |-> start.val, end |-> end.val]

\* lines 147-152: the lines of the first section of the input
IntervalLines(input) == Split(SplitOnce(Trim(input)).before, "\n")

\* lines 151-154: the intervals as collected, in input order
Collected(input) ==
    [k \in 1..Len(IntervalLines(input)) |->
        LET r == parse_inclusive_range(IntervalLines(input)[k])
        IN  <<r.start, r.end>>]

\* Vec::sort_by_key(|n| *n.start()), a stable sort: the place of x in a
\* sorted list is after every item whose start is not greater
RECURSIVE InsertByStart(_, _)
InsertByStart(sorted, x) ==
    IF sorted = <<>> THEN <<x>>
    ELSE IF x[1] < sorted[1][1] THEN <<x>> \o sorted
    ELSE <<sorted[1]>> \o InsertByStart(Tail(sorted), x)

RECURSIVE SortByStart(_)
SortByStart(list) ==
    IF list = <<>> THEN <<>>
    ELSE InsertByStart(SortByStart(SubSeq(list, 1, Len(list) - 1)), list[Len(list)])

\* the merged end taken from the later interval alone
MergedEndLast(end, i_end) == i_end

\* the first of the two ends, whichever is greater
MergedEndFirst(end, i_end) == end

\* line 164: current_end.max(i.end())
MergedEnd(end, i_end) == IF i_end > end THEN i_end ELSE end

\* ---- inputs ----
\* up to MaxIntervals intervals with FirstValue <= start <= end <= LastValue
MaxIntervals == 3
FirstValue == 8
LastValue == 12
IntervalStrs ==
    UNION {{RangeStr(a, b) : b \in a..LastValue} : a \in FirstValue..LastValue}
\* the second section, which puzzle2 ignores
IntegersStr == <<"9", "\n", "1", "1", "\n">>
WellFormedInputs ==
    {Join(lines, "\n") \o <<"\n", "\n">> \o IntegersStr :
        lines \in UNION {[1..n -> IntervalStrs] : n \in 1..MaxIntervals}}
\* without an empty line; with a line that is no interval; with blanks
\* around the numbers
OtherInputs ==
    {<<"8", "-", "9", "\n", "9", "\n">>,
     <<"8", "-", "9", "\n", "x", "-", "1", "\n", "\n", "9">>,
     <<"8", "\n", "\n", "9">>,
     <<"8", "-", "9", "-", "9", "\n", "\n", "9">>,
     <<"\n", " ", "9", " ", "-", " ", "1", "1", "\n", "8", "-", "+", "9", "\n", "\n", "9">>}
D5Inputs == WellFormedInputs \cup OtherInputs

InitDay5 ==
    /\ idle5
    /\ d5_input \in D5Inputs
    /\ intervals = <<>>
    /\ d5_next = 1
    /\ total = 0
    /\ current_start = 0
    /\ current_end = 0
    /\ d5_pc = "start"
    /\ root_node = <<>>
    /\ d5_count = 0

\* lines 147-150: expect() on an input without an empty line
D5PanicNoSections ==
    /\ d5_pc = "start"
    /\ ~SplitOnce(Trim(d5_input)).ok
    /\ d5_pc' = "panic"
    /\ UNCHANGED <<d5_input, intervals, d5_next, total, current_start, current_end>>
    /\ UNCHANGED others5

\* lines 151-154: unwrap() on a line that is no interval
D5PanicInterval ==
    /\ d5_pc = "start"
    /\ SplitOnce(Trim(d5_input)).ok
    /\ \E k \in 1..Len(IntervalLines(d5_input)) :
          ~parse_inclusive_range(IntervalLines(d5_input)[k]).ok
    /\ d5_pc' = "panic"
    /\ UNCHANGED <<d5_input, intervals, d5_next, total, current_start, current_end>>
    /\ UNCHANGED others5

\* lines 147-161: the intervals are collected and sorted, the locals set
D5Sort ==
    /\ d5_pc = "start"
    /\ SplitOnce(Trim(d5_input)).ok
    /\ \A k \in 1..Len(IntervalLines(d5_input)) :
          parse_inclusive_range(IntervalLines(d5_input)[k]).ok
    /\ intervals' = SortByStart(Collected(d5_input))
    /\ total' = 0
    /\ current_start' = intervals'[1][1]
    /\ current_end' = intervals'[1][2]
    /\ d5_next' = 2
    /\ d5_pc' = "loop"
    /\ UNCHANGED d5_input
    /\ UNCHANGED others5

\* lines 162-170: one iteration of the for loop
D5Merge ==
    /\ d5_pc = "loop"
    /\ d5_next <= Len(intervals)
    /\ LET i == intervals[d5_next]
       IN  IF i[1] <= current_end + 1
           THEN /\ current_end' = MergedEnd(current_end, i[2])
                /\ UNCHANGED <<total, current_start>>
           ELSE /\ total' = total + (current_end - current_start + 1)
                /\ current_start' = i[1]
                /\ current_end' = i[2]
    /\ d5_next' = d5_next + 1
    /\ UNCHANGED <<d5_input, intervals, d5_pc>>
    /\ UNCHANGED others5

\* lines 171-172: the last run is added and total returned
D5Return ==
    /\ d5_pc = "loop"
    /\ d5_next > Len(intervals)
    /\ total' = total + (current_end - current_start + 1)
    /\ d5_pc' = "done"
    /\ UNCHANGED <<d5_input, intervals, d5_next, current_start, current_end>>
    /\ UNCHANGED others5

NextDay5 ==
    \/ D5PanicNoSections
    \/ D5PanicInterval
    \/ D5Sort
    \/ D5Merge
    \/ D5Return

(***************************************************************************)
(* Day 5: the integers the intervals cover                                 *)
(***************************************************************************)
\* The integers that belong to at least one of the intervals of list
Covered(list) == UNION {list[k][1]..list[k][2] : k \in 1..Len(list)}

\* Every interval of list has start <= end
Ordered(list) == \A k \in 1..Len(list) : list[k][1] <= list[k][2]

\* C5: for intervals with start <= end, in any order, puzzle2 returns the
\* number of distinct integers that belong to at least one interval; during
\* the loop, total plus the length of the current run is the number of
\* integers covered by the intervals taken so far.
C5_Puzzle2CountsCoveredIntegers ==
    (d5_pc \in {"loop", "done"} /\ Ordered(Collected(d5_input))) =>
        /\ d5_pc = "loop" =>
              total + (current_end - current_start + 1)
                  = Cardinality(Covered(SubSeq(intervals, 1, d5_next - 1)))
        /\ d5_pc = "done" => total = Cardinality(Covered(Collected(d5_input)))

\* A returned run on three intervals given out of order, two of which
\* overlap or touch and one of which stands apart
C5_Witness ==
    /\ d5_pc = "done"
    /\ Len(intervals) = 3
    /\ intervals # Collected(d5_input)
    /\ total < (LastValue - FirstValue) + 1
    /\ \E v \in FirstValue..LastValue :
          /\ v \notin Covered(intervals)
          /\ \E a, b \in Covered(intervals) : a < v /\ v < b
    /\ \E k \in 1..2 : intervals[k + 1][1] <= intervals[k][2] + 1

(***************************************************************************)
(* Day 6: the worksheet read by columns (src/src/solutions/day6.rs)        *)
(***************************************************************************)
\* lines 124-131: the offsets pushed by the read_until loop from offset from
\* on: the offset after each newline, and the end of the file
RECURSIVE ScanFrom(_, _)
ScanFrom(file, from) ==
    IF from >= Len(file) THEN <<>>
    ELSE LET ends == {k \in (from + 1)..Len(file) : file[k] = "\n"}
         IN  IF ends = {} THEN <<Len(file)>>
             ELSE LET k == CHOOSE k \in ends : \A e \in ends : k <= e
                  IN  <<k>> \o ScanFrom(file, k)

\* lines 122-131: newline_offsets
NewlineOffsets(file) == <<0>> \o ScanFrom(file, 0)

\* lines 132-136: windows(2), each a range of offsets w[0]..w[1]
Windows(offsets) == [k \in 1..(Len(offsets) - 1) |-> <<offsets[k], offsets[k + 1]>>]

\* lines 151-156: the next byte of a reversed range lo..hi of offsets that
\* is no newline, and the range left after it
RECURSIVE TakeNext(_, _, _)
TakeNext(file, lo, hi) ==
    IF hi <= lo THEN [some |-> FALSE, c |-> "\n", hi |-> hi]
    ELSE IF file[hi] = "\n" THEN TakeNext(file, lo, hi - 1)
    ELSE [some |-> TRUE, c |-> file[hi], hi |-> hi - 1]

\* lines 157-168: which branch of the if chain the byte c takes
Branch(c, is_last_offset) ==
    IF IsWhitespace(c) THEN "whitespace"
    ELSE IF ~is_last_offset /\ (IsDigitChar(c) \/ c = "-") THEN "digit"
    ELSE IF c = "+" THEN "add"
    ELSE IF c = "*" THEN "multiply"
    ELSE "other"

\* lines 181, 185: Iterator::sum and Iterator::product over numbers
RECURSIVE SumOf(_)
SumOf(nums) == IF nums = <<>> THEN 0 ELSE nums[1] + SumOf(Tail(nums))
RECURSIVE ProductOf(_)
ProductOf(nums) == IF nums = <<>> THEN 1 ELSE nums[1] * ProductOf(Tail(nums))

\* lines 179-188: the value added to total_sum
Applied(op, nums) == IF op = "Add" THEN SumOf(nums) ELSE ProductOf(nums)

\* the operation applied whether or not a number is there
AppliesWithoutNumbers(op, nums) == op # "None"

\* line 178: if let Some(ref o) = operation && !numbers.is_empty()
Applies(op, nums) == op # "None" /\ nums # <<>>

\* lines 149-191: the locals after the body of the for loop has run for line
\* i: the byte taken, the branch, the number pushed, the operation applied
LineStep ==
    LET is_last_offset == d6_i = Len(current_offsets) - 1
        iter == current_offsets[d6_i + 1]
        next == TakeNext(d6_file, iter[1], iter[2])
        branch == IF next.some THEN Branch(next.c, is_last_offset) ELSE "none"
        str == IF branch = "digit" THEN Append(num_string, next.c) ELSE num_string
        op == IF branch = "add" THEN "Add"
              ELSE IF branch = "multiply" THEN "Multiply" ELSE operation
        pushes == next.some /\ is_last_offset /\ str # <<>>
        parsed == ParseI64(str)
        nums == IF pushes THEN Append(numbers, parsed.val) ELSE numbers
    IN  [iter |-> <<iter[1], next.hi>>,
         keep |-> keep_processing \/ branch \in {"whitespace", "digit", "add", "multiply"},
         parse_failed |-> pushes /\ ~parsed.ok,
         str |-> IF pushes THEN <<>> ELSE str,
         total |-> IF Applies(op, nums) THEN total_sum + Applied(op, nums) ELSE total_sum,
         nums |-> IF Applies(op, nums) THEN <<>> ELSE nums,
         op |-> IF Applies(op, nums) THEN "None" ELSE op]

\* ---- inputs ----
\* files of OperandRows operand lines and one operator line, all of the same
\* length (1..MaxColumns), written column by column
OperandRows == 2
MaxColumns == 3
\* the operand part of a column: blank, a digit in the top line, all digits
BlankCells == [k \in 1..OperandRows |-> " "]
TopCell == [k \in 1..OperandRows |-> IF k = 1 THEN "3" ELSE " "]
FullCells == [k \in 1..OperandRows |-> "1"]
ColumnPool == {cells \o <<o>> : cells \in {BlankCells, TopCell, FullCells}, o \in {" ", "+", "*"}}
\* line k of the file whose columns are cols
LineOf(cols, k) == [c \in 1..Len(cols) |-> cols[c][k]]
RECURSIVE LinesText(_, _)
LinesText(cols, k) ==
    IF k > OperandRows + 1 THEN <<>>
    ELSE LineOf(cols, k) \o <<"\n">> \o LinesText(cols, k + 1)
ColumnFiles ==
    {LinesText(cols, 1) : cols \in UNION {[1..w -> ColumnPool] : w \in 1..MaxColumns}}
\* the same files without the newline that ends the last line
UnterminatedFiles == {SubSeq(f, 1, Len(f) - 1) : f \in ColumnFiles}
\* the empty file; a column "-2" and a column "2-" with a sign
OtherFiles ==
    {<<>>,
     <<"-", "\n", "2", "\n", "+", "\n">>,
     <<"2", "\n", "-", "\n", "+", "\n">>}
D6Files == ColumnFiles \cup UnterminatedFiles \cup OtherFiles

InitDay6 ==
    /\ idle6
    /\ d6_file \in D6Files
    /\ current_offsets = <<>>
    /\ total_sum = 0
    /\ keep_processing = FALSE
    /\ numbers = <<>>
    /\ operation = "None"
    /\ num_string = <<>>
    /\ d6_i = 0
    /\ d6_pc = "start"

\* lines 120-146: the file is scanned for newlines, the locals are set and
\* the while loop is entered
D6Scan ==
    /\ d6_pc = "start"
    /\ current_offsets' = Windows(NewlineOffsets(d6_file))
    /\ total_sum' = 0
    /\ keep_processing' = FALSE
    /\ numbers' = <<>>
    /\ operation' = "None"
    /\ num_string' = <<>>
    /\ d6_i' = 0
    /\ d6_pc' = "lines"
    /\ UNCHANGED d6_file
    /\ UNCHANGED others6

\* lines 148-191: the body of the for loop for line i
D6Line ==
    /\ d6_pc = "lines"
    /\ d6_i < Len(current_offsets)
    /\ ~LineStep.parse_failed
    /\ current_offsets' = [current_offsets EXCEPT ![d6_i + 1] = LineStep.iter]
    /\ keep_processing' = LineStep.keep
    /\ num_string' = LineStep.str
    /\ numbers' = LineStep.nums
    /\ operation' = LineStep.op
    /\ total_sum' = LineStep.total
    /\ d6_i' = d6_i + 1
    /\ UNCHANGED <<d6_file, d6_pc>>
    /\ UNCHANGED others6

\* line 171: expect() on a num_string that is no integer
D6PanicParse ==
    /\ d6_pc = "lines"
    /\ d6_i < Len(current_offsets)
    /\ LineStep.parse_failed
    /\ d6_pc' = "panic"
    /\ UNCHANGED <<d6_file, current_offsets, total_sum, keep_processing, numbers,
                   operation, num_string, d6_i>>
    /\ UNCHANGED others6

\* lines 145-146, 193-196: a byte was taken, the while loop runs again
D6NextColumn ==
    /\ d6_pc = "lines"
    /\ d6_i >= Len(current_offsets)
    /\ keep_processing
    /\ keep_processing' = FALSE
    /\ d6_i' = 0
    /\ UNCHANGED <<d6_file, current_offsets, total_sum, numbers, operation,
                   num_string, d6_pc>>
    /\ UNCHANGED others6

\* lines 193-197: no byte was taken, total_sum is returned
D6Return ==
    /\ d6_pc = "lines"
    /\ d6_i >= Len(current_offsets)
    /\ ~keep_processing
    /\ d6_pc' = "done"
    /\ UNCHANGED <<d6_file, current_offsets, total_sum, keep_processing, numbers,
                   operation, num_string, d6_i>>
    /\ UNCHANGED others6

NextDay6 ==
    \/ D6Scan
    \/ D6Line
    \/ D6PanicParse
    \/ D6NextColumn
    \/ D6Return

(***************************************************************************)
(* Day 6: the worksheet as a grid of character columns                     *)
(***************************************************************************)
\* The lines of the file, without their newlines
FileLines(file) ==
    LET parts == Split(file, "\n")
    IN  IF parts[Len(parts)] = <<>> THEN SubSeq(parts, 1, Len(parts) - 1) ELSE parts

\* All lines have the same length, the operand lines hold digits and blanks
\* and the last line holds blanks, '+' and '*'
IsWorksheet(file) ==
    LET lines == FileLines(file)
    IN  /\ Len(lines) >= 1
        /\ \A k \in 1..Len(lines) : Len(lines[k]) = Len(lines[1])
        /\ \A k \in 1..(Len(lines) - 1) : \A c \in 1..Len(lines[k]) :
              lines[k][c] = " " \/ IsDigitChar(lines[k][c])
        /\ \A c \in 1..Len(lines[1]) : lines[Len(lines)][c] \in {" ", "+", "*"}

\* The number of character columns
ColumnCount(file) == IF FileLines(file) = <<>> THEN 0 ELSE Len(FileLines(file)[1])

\* The digits of character column c, read top to bottom over the operand lines
RECURSIVE ColumnDigits(_, _, _)
ColumnDigits(lines, c, k) ==
    IF k >= Len(lines) THEN <<>>
    ELSE (IF IsDigitChar(lines[k][c]) THEN <<lines[k][c]>> ELSE <<>>)
           \o ColumnDigits(lines, c, k + 1)

\* The operands so far with the operand of column c, if it has one
WithOperand(lines, c, operands) ==
    LET digits == ColumnDigits(lines, c, 1)
    IN  IF digits = <<>> THEN operands ELSE Append(operands, DigitsValue(digits))

\* The byte of the last line in column c
Symbol(lines, c) == lines[Len(lines)][c]

\* The sum or product of the operands; empty is what no operand gives under '*'
Result(symbol, operands, empty) ==
    IF symbol = "+" THEN SumOf(operands)
    ELSE IF operands = <<>> THEN empty ELSE ProductOf(operands)

\* The claim as written: after the n rightmost columns, where every '+' or
\* '*' column adds the result of the operands accumulated since the previous
\* operator and clears them
RECURSIVE AtEveryOperator(_, _, _)
AtEveryOperator(lines, n, empty) ==
    IF n = 0 THEN [total |-> 0, operands |-> <<>>]
    ELSE LET before == AtEveryOperator(lines, n - 1, empty)
             c == Len(lines[1]) - n + 1
             operands == WithOperand(lines, c, before.operands)
         IN  IF Symbol(lines, c) \in {"+", "*"}
             THEN [total |-> before.total + Result(Symbol(lines, c), operands, empty),
                   operands |-> <<>>]
             ELSE [total |-> before.total, operands |-> operands]

\* After the n rightmost columns, where a '+' or '*' stays pending until at
\* least one operand has accumulated and is applied then
RECURSIVE OncePendingAndOperand(_, _)
OncePendingAndOperand(lines, n) ==
    IF n = 0 THEN [total |-> 0, operands |-> <<>>, pending |-> " "]
    ELSE LET before == OncePendingAndOperand(lines, n - 1)
             c == Len(lines[1]) - n + 1
             operands == WithOperand(lines, c, before.operands)
             pending == IF Symbol(lines, c) \in {"+", "*"} THEN Symbol(lines, c)
                        ELSE before.pending
         IN  IF pending # " " /\ operands # <<>>
             THEN [total |-> before.total + Result(pending, operands, 1),
                   operands |-> <<>>, pending |-> " "]
             ELSE [total |-> before.total, operands |-> operands, pending |-> pending]

\* The number of character columns taken so far (from the first line)
ColumnsTaken ==
    ColumnCount(d6_file)
        - Cardinality({k \in (current_offsets[1][1] + 1)..current_offsets[1][2] :
                          d6_file[k] # "\n"})

\* The pending symbol held by operation
PendingSymbol == IF operation = "Add" THEN "+" ELSE IF operation = "Multiply" THEN "*" ELSE " "

\* C6 as written: on a worksheet, the result is the total of the results
\* added at every '+' or '*' column, each over exactly the operands
\* accumulated since the previous operator (a '*' without operands adding
\* 1, or nothing).
C6_AppliesAtEveryOperatorColumn ==
    (d6_pc = "done" /\ IsWorksheet(d6_file)) =>
        \/ total_sum = AtEveryOperator(FileLines(d6_file), ColumnCount(d6_file), 1).total
        \/ total_sum = AtEveryOperator(FileLines(d6_file), ColumnCount(d6_file), 0).total

\* C6, amended: on a worksheet, columns are taken from right to left, the
\* digits of a column read top to bottom form one operand, and once a '+' or
\* '*' has been met and at least one operand has accumulated since the last
\* application, the sum or product of exactly those operands is added to the
\* total and operands and operator are cleared; an operator met before any
\* operand has accumulated stays pending.
C6_AppliesOncePendingAndOperand ==
    IsWorksheet(d6_file) =>
        /\ (d6_pc = "lines" /\ d6_i >= Len(current_offsets)) =>
              LET after == OncePendingAndOperand(FileLines(d6_file), ColumnsTaken)
              IN  /\ total_sum = after.total
                  /\ numbers = after.operands
                  /\ PendingSymbol = after.pending
                  /\ num_string = <<>>
        /\ d6_pc = "done" =>
              total_sum = OncePendingAndOperand(FileLines(d6_file), ColumnCount(d6_file)).total

\* A returned run on a worksheet of three columns whose rightmost column
\* holds an operator and no operand: the operator stayed pending, was
\* applied in the next column, and the '*' of the leftmost column added more
C6_Witness ==
    /\ d6_pc = "done"
    /\ IsWorksheet(d6_file)
    /\ ColumnCount(d6_file) = 3
    /\ LET lines == FileLines(d6_file)
       IN  /\ OncePendingAndOperand(lines, 1).pending # " "
           /\ OncePendingAndOperand(lines, 1).operands = <<>>
           /\ OncePendingAndOperand(lines, 2).total > 0
           /\ Symbol(lines, 1) = "*"
           /\ total_sum > OncePendingAndOperand(lines, 2).total

(***************************************************************************)
(* Day 7: the ray graph (src/src/solutions/day7.rs)                        *)
(***************************************************************************)
\* lines 72-86: the length of the first line, its newline included (the
\* length of the file when it holds no newline)
LineLen(file) ==
    IF FirstIndexOf(file, "\n") = 0 THEN Len(file) ELSE FirstIndexOf(file, "\n")

\* line 95: file_len as usize / line_len
RowCount(file) == Len(file) \div LineLen(file)

\* lines 146: the byte read_at gives for row r and column c
ByteAt(r, c) == d7_file[(r * columns) + c + 1]

\* line 158: c - 1 on usize, for c = 0 in a build without overflow checks.
\* The value stands for usize::MAX, which is no column of a file here.
WrappedColumn == -1
Decrement(c) == IF c = 0 THEN WrappedColumn ELSE c - 1

\* a node that is put on row 0 whatever its row
NewRayNodeOnRowZero(line_index, char_index) ==
    [line_index |-> 0, char_index |-> char_index, children |-> <<>>]

\* lines 16-18: RayNode::new
NewRayNode(line_index, char_index) ==
    [line_index |-> line_index, char_index |-> char_index, children |-> <<>>]

\* the new nodes of a column replacing the nodes that are there
ExtendReplacing(existing, rps) == rps

\* line 177: ray_map.entry(ra).or_default().extend(rps)
Extend(existing, rps) == existing \o rps

\* lines 145-171: the scan of row r from column c on. st holds the nodes,
\* the root, ray_map (changed in row 0 only), rays_to_remove and rays_to_add
RECURSIVE ScanRow(_, _, _)
ScanRow(r, c, st) ==
    IF c >= columns THEN st
    ELSE IF r = 0 /\ ByteAt(r, c) = "S"
    THEN [st EXCEPT !.nodes = Append(st.nodes, NewRayNode(r, c)),
                    !.root = Len(st.nodes) + 1,
                    !.map = [st.map EXCEPT ![c] = <<Len(st.nodes) + 1>>]]
    ELSE IF ByteAt(r, c) = "^" /\ st.map[c] # <<>>
    THEN LET left_child == Len(st.nodes) + 1
             right_child == Len(st.nodes) + 2
             parents == {st.map[c][k] : k \in 1..Len(st.map[c])}
             added == (IF c < columns THEN <<left_child, right_child>>
                       ELSE <<left_child>>)
             nodes == [n \in 1..(Len(st.nodes) + 2) |->
                          IF n = left_child THEN NewRayNode(r, Decrement(c))
                          ELSE IF n = right_child THEN NewRayNode(r, c + 1)
                          ELSE IF n \in parents
                          THEN [st.nodes[n] EXCEPT !.children = @ \o added]
                          ELSE st.nodes[n]]
             to_add == [k \in DOMAIN st.add |->
                          IF k = Decrement(c) THEN Append(st.add[k], left_child)
                          ELSE IF k = c + 1 /\ c < columns
                          THEN Append(st.add[k], right_child)
                          ELSE st.add[k]]
         IN  ScanRow(r, c + 1,
                     [st EXCEPT !.nodes = nodes, !.add = to_add,
                                !.remove = st.remove \cup {c},
                                !.underflow = st.underflow \/ c = 0])
    ELSE ScanRow(r, c + 1, st)

\* lines 143-171: row r scanned from its first column
Scanned(r) ==
    ScanRow(r, 0, [nodes |-> ray_nodes, root |-> root_ray_node, map |-> ray_map,
                   remove |-> {}, add |-> [k \in DOMAIN ray_map |-> <<>>],
                   underflow |-> FALSE])

\* lines 172-178: ray_map after the removals and the additions of a row
Updated(st) ==
    [k \in DOMAIN st.map |->
        Extend(IF k \in st.remove THEN <<>> ELSE st.map[k], st.add[k])]

\* a cache key that holds the line of the node only
CacheKeyLineOnly(node) == <<node.line_index, 0>>

\* line 33: let key = (rn.line_index, rn.char_index)
CacheKey(node) == <<node.line_index, node.char_index>>

\* lines 31-49: count_unique_paths_dfs_memoized on node n; Dfs gives the
\* count and the cache after the call, DfsChildren the same for the loop
\* over the children from the k-th on
RECURSIVE Dfs(_, _, _)
RECURSIVE DfsChildren(_, _, _, _, _)
DfsChildren(nodes, children, k, total_paths, cache) ==
    IF k > Len(children) THEN [count |-> total_paths, cache |-> cache]
    ELSE LET sub == Dfs(nodes, children[k], cache)
         IN  DfsChildren(nodes, children, k + 1, total_paths + sub.count, sub.cache)

Dfs(nodes, n, cache) ==
    LET key == CacheKey(nodes[n])
    IN  IF \E e \in cache : e[1] = key
        THEN [count |-> (CHOOSE e \in cache : e[1] = key)[2], cache |-> cache]
        ELSE IF nodes[n].children = <<>> THEN [count |-> 1, cache |-> cache]
        ELSE LET sub == DfsChildren(nodes, nodes[n].children, 1, 0, cache)
             IN  [count |-> sub.count, cache |-> sub.cache \cup {<<key, sub.count>>}]

\* lines 24-27: count_unique_paths
count_unique_paths(nodes, root) == Dfs(nodes, root, {}).count

\* ---- inputs ----
\* files of 1..MaxRows lines of GridWidth characters and a newline: 'S' and
\* '.' in row 0, '.' in the odd rows, '.' and '^' in the other even rows
GridWidth == 3
MaxRows == 7
StartLine(s) == [c \in 1..(GridWidth + 1) |->
                    IF c = GridWidth + 1 THEN "\n" ELSE IF c = s THEN "S" ELSE "."]
SplitterLine(splitters) == [c \in 1..(GridWidth + 1) |->
                    IF c = GridWidth + 1 THEN "\n" ELSE IF c \in splitters THEN "^" ELSE "."]
\* rows k..n of the grid whose even row 2m holds the splitters at splits[m]
RECURSIVE GridText(_, _, _)
GridText(splits, k, n) ==
    IF k >= n THEN <<>>
    ELSE SplitterLine(IF k % 2 = 0 THEN splits[k \div 2] ELSE {}) \o GridText(splits, k + 1, n)
GridFiles ==
    UNION {{StartLine(s) \o GridText(splits, 1, n) :
                s \in 1..GridWidth,
                splits \in [1..((n - 1) \div 2) -> SUBSET (1..GridWidth)]} :
            n \in 1..MaxRows}
\* the empty file; a file without newline; without S; a grid whose last line
\* has no newline; a '^' before the S
OtherGrids ==
    {<<>>,
     <<"S">>,
     <<".", "\n", "^", "\n">>,
     <<"S", "\n", ".", "\n", "^">>,
     <<"^", "S", "\n", ".", ".", "\n", ".", "^", "\n">>}
D7Files == GridFiles \cup OtherGrids

InitDay7 ==
    /\ idle7
    /\ d7_file \in D7Files
    /\ overflow_checks \in BOOLEAN
    /\ rows = 0
    /\ columns = 0
    /\ root_ray_node = 0
    /\ ray_map = <<>>
    /\ ray_nodes = <<>>
    /\ d7_r = 0
    /\ d7_result = 0
    /\ d7_pc = "start"
    /\ rays = {}
    /\ total_splits = 0

\* lines 87-89, 245-246: try_from returns Err and expect() panics
D7PanicNoGrid ==
    /\ d7_pc = "start"
    /\ LineLen(d7_file) = 0
    /\ d7_pc' = "panic"
    /\ UNCHANGED <<d7_file, overflow_checks, rows, columns, root_ray_node, ray_map,
                   ray_nodes, d7_r, d7_result>>
    /\ UNCHANGED others7

\* lines 68-106, 141-142: the Grid is built and build_graph entered
D7TryFrom ==
    /\ d7_pc = "start"
    /\ LineLen(d7_file) # 0
    /\ rows' = RowCount(d7_file)
    /\ columns' = LineLen(d7_file)
    /\ root_ray_node' = 0
    /\ ray_map' = [k \in WrappedColumn..LineLen(d7_file) |-> <<>>]
    /\ ray_nodes' = <<>>
    /\ d7_r' = 0
    /\ d7_pc' = "rows"
    /\ UNCHANGED <<d7_file, overflow_checks, d7_result>>
    /\ UNCHANGED others7

\* lines 142-179: the body of the loop over r
D7Row ==
    /\ d7_pc = "rows"
    /\ d7_r < rows
    /\ ~(overflow_checks /\ Scanned(d7_r).underflow)
    /\ ray_nodes' = Scanned(d7_r).nodes
    /\ root_ray_node' = Scanned(d7_r).root
    /\ ray_map' = Updated(Scanned(d7_r))
    /\ d7_r' = d7_r + 2
    /\ UNCHANGED <<d7_file, overflow_checks, rows, columns, d7_result, d7_pc>>
    /\ UNCHANGED others7

\* line 158: c - 1 for c = 0 panics in a build with overflow checks
D7PanicUnderflow ==
    /\ d7_pc = "rows"
    /\ d7_r < rows
    /\ overflow_checks /\ Scanned(d7_r).underflow
    /\ d7_pc' = "panic"
    /\ UNCHANGED <<d7_file, overflow_checks, rows, columns, root_ray_node, ray_map,
                   ray_nodes, d7_r, d7_result>>
    /\ UNCHANGED others7

\* lines 180-183: panic!("failed to identify the root node")
D7PanicNoRoot ==
    /\ d7_pc = "rows"
    /\ d7_r >= rows
    /\ root_ray_node = 0
    /\ d7_pc' = "panic"
    /\ UNCHANGED <<d7_file, overflow_checks, rows, columns, root_ray_node, ray_map,
                   ray_nodes, d7_r, d7_result>>
    /\ UNCHANGED others7

\* lines 180-181, 250: the root is returned and its paths are counted
D7Count ==
    /\ d7_pc = "rows"
    /\ d7_r >= rows
    /\ root_ray_node # 0
    /\ d7_result' = count_unique_paths(ray_nodes, root_ray_node)
    /\ d7_pc' = "done"
    /\ UNCHANGED <<d7_file, overflow_checks, rows, columns, root_ray_node, ray_map,
                   ray_nodes, d7_r>>
    /\ UNCHANGED others7

NextDay7 ==
    \/ D7PanicNoGrid
    \/ D7TryFrom
    \/ D7Row
    \/ D7PanicUnderflow
    \/ D7PanicNoRoot
    \/ D7Count

(***************************************************************************)
(* Day 7: the paths of a single ray                                        *)
(***************************************************************************)
\* The lines of the grid: every line of the file ends with a newline, all
\* lines have the same length, and row 0 holds one S and no splitter
IsGrid(file) ==
    /\ file # <<>>
    /\ file[Len(file)] = "\n"
    /\ \A k \in 1..Len(FileLines(file)) : Len(FileLines(file)[k]) = Len(FileLines(file)[1])
    /\ Cardinality({c \in 1..Len(FileLines(file)[1]) : FileLines(file)[1][c] = "S"}) = 1
    /\ \A c \in 1..Len(FileLines(file)[1]) : FileLines(file)[1][c] # "^"

\* The column (from 1) of the S in row 0
StartColumn(lines) == CHOOSE c \in 1..Len(lines[1]) : lines[1][c] = "S"

\* Whether row r (from 0) holds a splitter in column c (from 1); a column
\* outside the grid holds none
IsSplitter(lines, r, c) == c \in 1..Len(lines[1]) /\ lines[r + 1][c] = "^"

\* The downward paths of a ray that is in column c above the even row r
RECURSIVE PathsFrom(_, _, _)
PathsFrom(lines, r, c) ==
    IF r >= Len(lines) THEN 1
    ELSE IF IsSplitter(lines, r, c)
    THEN PathsFrom(lines, r + 2, c - 1) + PathsFrom(lines, r + 2, c + 1)
    ELSE PathsFrom(lines, r + 2, c)

\* C4: for a rectangular grid with S in row 0, the value puzzle2 returns is
\* the number of downward paths of a single ray from S, where at every
\* splitter met in an even row the path goes on at column-1 or at column+1
\* and paths that arrive at the same column count separately; 1 when no
\* splitter is hit.
C4_Puzzle2CountsPaths ==
    (d7_pc = "done" /\ IsGrid(d7_file)) =>
        d7_result = PathsFrom(FileLines(d7_file), 2, StartColumn(FileLines(d7_file)))

\* A returned run on a grid where two paths arrive at the same column and
\* are split there again
C4_Witness ==
    /\ d7_pc = "done"
    /\ IsGrid(d7_file)
    /\ d7_result >= 4
    /\ \E n, m \in 1..Len(ray_nodes) :
          /\ n # m
          /\ ray_nodes[n].line_index = ray_nodes[m].line_index
          /\ ray_nodes[n].char_index = ray_nodes[m].char_index
          /\ ray_nodes[n].children # <<>>

(***************************************************************************)
(* Day 3 puzzle1: the two batteries (src/src/solutions/day3.rs)            *)
(***************************************************************************)
\* puzzle1 with the first slot open to the last digit too
FirstSlotAlwaysOpen(i, last_i) == TRUE

\* puzzle1, lines 27-31: i <= d1_max_i, where d1_max_i = last_i - 1 on usize.
\* For last_i = 0 the subtraction wraps to usize::MAX where overflow is not
\* checked, and every i is below it.
FirstSlotOpen(i, last_i) == IF last_i = 0 THEN TRUE ELSE i <= last_i - 1

\* puzzle1, lines 29-37: the loop from 0-based index i on
RECURSIVE Puzzle1Loop(_, _, _)
Puzzle1Loop(arr, digits, i) ==
    IF i > Len(digits) - 1 THEN arr
    ELSE LET digit == digits[i + 1]
         IN  IF digit > arr[1] /\ FirstSlotOpen(i, Len(digits) - 1)
             THEN Puzzle1Loop(<<digit, 0>>, digits, i + 1)
             ELSE IF digit > arr[2]
             THEN Puzzle1Loop(<<arr[1], digit>>, digits, i + 1)
             ELSE Puzzle1Loop(arr, digits, i + 1)

\* puzzle1, lines 21-45: the closure's number for one line with a digit
Puzzle1Closure(line) ==
    ParseU128(U64ToString(Puzzle1Loop(<<0, 0>>, LineDigits(line), 0)[1])
                \o U64ToString(Puzzle1Loop(<<0, 0>>, LineDigits(line), 0)[2]))

\* ---- inputs ----
\* one line of up to MaxBankLen characters before or after up to MaxOthers
\* lines of a small pool
MaxBankLen == 4
MaxOthers == 1
ShortBanks == UNION {[1..n -> {"0", "1", "2", "x"}] : n \in 0..MaxBankLen}
OtherBanks == {<<"9", "0">>, <<"a", "3", "b", "7", "5">>, <<"4">>}
OtherBankLists == UNION {[1..n -> OtherBanks] : n \in 0..MaxOthers}
D3Puzzle1Inputs ==
    {<<b>> \o rest : b \in ShortBanks, rest \in OtherBankLists}
        \cup {rest \o <<b>> : b \in ShortBanks, rest \in OtherBankLists}

InitDay3Puzzle1 ==
    /\ idle3
    /\ d3_input \in D3Puzzle1Inputs
    /\ d3_next = 1
    /\ d3_nums = <<>>
    /\ d3_sum = [hi |-> 0, lo |-> 0]
    /\ d3_pc = "lines"

\* lines 21-45: the closure runs on the next line (on a line of one digit:
\* where overflow is not checked)
Puzzle1Line ==
    /\ d3_pc = "lines"
    /\ d3_next <= Len(d3_input)
    /\ LineDigits(d3_input[d3_next]) # <<>>
    /\ d3_nums' = Append(d3_nums, Puzzle1Closure(d3_input[d3_next]))
    /\ d3_next' = d3_next + 1
    /\ UNCHANGED <<d3_input, d3_sum, d3_pc>>
    /\ UNCHANGED others3

\* lines 27-28: digits.len()-1 on a line without digits (then digits[0]
\* where it wraps), last_i - 1 on a line of one digit where overflow is checked
D3Puzzle1Panic ==
    /\ d3_pc = "lines"
    /\ d3_next <= Len(d3_input)
    /\ Len(LineDigits(d3_input[d3_next])) <= 1
    /\ d3_pc' = "panic"
    /\ UNCHANGED <<d3_input, d3_next, d3_nums, d3_sum>>
    /\ UNCHANGED others3

NextDay3Puzzle1 ==
    \/ Puzzle1Line
    \/ D3Puzzle1Panic
    \/ D3Sum

(***************************************************************************)
(* Day 3 puzzle1: the largest pair of a line                               *)
(***************************************************************************)
\* The values d_i * 10 + d_j over the index pairs i < j of ds
PairValues(ds) ==
    {10 * ds[p[1]] + ds[p[2]] :
        p \in {q \in (1..Len(ds)) \X (1..Len(ds)) : q[1] < q[2]}}

\* The largest of them
MaxPair(ds) == CHOOSE v \in PairValues(ds) : \A w \in PairValues(ds) : w <= v

\* The sum of the largest pairs of the lines
RECURSIVE MaxPairSum(_)
MaxPairSum(lines) ==
    IF lines = <<>> THEN 0
    ELSE MaxPair(LineDigits(lines[1])) + MaxPairSum(Tail(lines))

\* C11: for every line with at least 2 decimal digits the number puzzle1
\* produces is the largest d_i * 10 + d_j over the pairs i < j of the line's
\* digits, and the result is the sum of these numbers.
C11_Puzzle1TakesLargestPair ==
    /\ \A k \in 1..Len(d3_nums) :
          Len(LineDigits(d3_input[k])) >= 2
            => d3_nums[k] = [hi |-> 0, lo |-> MaxPair(LineDigits(d3_input[k]))]
    /\ (d3_pc = "done" /\ \A k \in 1..Len(d3_input) : Len(LineDigits(d3_input[k])) >= 2)
          => d3_sum = [hi |-> 0, lo |-> MaxPairSum(d3_input)]

\* A returned run on two lines, one of which has its largest digit last and
\* a zero in it
C11_Witness ==
    /\ d3_pc = "done"
    /\ Len(d3_input) = 2
    /\ d3_sum.lo > 100
    /\ \E k \in 1..2 :
          LET ds == LineDigits(d3_input[k])
          IN  /\ Len(ds) >= 3
              /\ 0 \in {ds[m] : m \in 1..Len(ds)}
              /\ \A m \in 1..(Len(ds) - 1) : ds[m] < ds[Len(ds)]

(***************************************************************************)
(* Day 7 puzzle1: the splits of the rays (src/src/solutions/day7.rs)       *)
(***************************************************************************)
\* the rays of a row added to the set with the rays that were split kept
RaysAfterRowKeeping(set, rays_to_remove, rays_to_add) == set \cup rays_to_add

\* lines 131-136: the removals, then the insertions
RaysAfterRow(set, rays_to_remove, rays_to_add) ==
    (set \ rays_to_remove) \cup rays_to_add

\* lines 116-130: the scan of row r from column c on. st holds rays (changed
\* in row 0 only), total_splits, rays_to_remove and rays_to_add
RECURSIVE SplitScan(_, _, _)
SplitScan(r, c, st) ==
    IF c >= columns THEN st
    ELSE IF r = 0 /\ ByteAt(r, c) = "S"
    THEN [st EXCEPT !.rays = st.rays \cup {c}]
    ELSE IF ByteAt(r, c) = "^" /\ c \in st.rays
    THEN SplitScan(r, c + 1,
                   [st EXCEPT !.total_splits = st.total_splits + 1,
                              !.remove = st.remove \cup {c},
                              !.add = st.add \cup {Decrement(c)}
                                        \cup (IF c < columns THEN {c + 1} ELSE {}),
                              !.underflow = st.underflow \/ c = 0])
    ELSE SplitScan(r, c + 1, st)

\* lines 113-130: row r scanned from its first column
SplitScanned(r) ==
    SplitScan(r, 0, [rays |-> rays, total_splits |-> total_splits,
                     remove |-> {}, add |-> {}, underflow |-> FALSE])

\* ---- inputs ----
\* the files of the graph, and grids of WideWidth columns with S in the
\* middle, where rays split in one row can meet again in the next
WideWidth == 5
WideRows == 3
WideSplitters == {{}, {3}, {2, 4}, {1, 3, 5}}
WideLine(splitters) == [c \in 1..(WideWidth + 1) |->
                    IF c = WideWidth + 1 THEN "\n" ELSE IF c \in splitters THEN "^" ELSE "."]
WideStart == [c \in 1..(WideWidth + 1) |->
                    IF c = WideWidth + 1 THEN "\n" ELSE IF c = 3 THEN "S" ELSE "."]
RECURSIVE WideText(_, _)
WideText(splits, k) ==
    IF k > Len(splits) THEN <<>>
    ELSE WideLine({}) \o WideLine(splits[k]) \o WideText(splits, k + 1)
WideGrids ==
    {WideStart \o WideText(splits, 1) :
        splits \in [1..WideRows -> WideSplitters]}
D7Puzzle1Files == D7Files \cup WideGrids

InitDay7Puzzle1 ==
    /\ idle7
    /\ d7_file \in D7Puzzle1Files
    /\ overflow_checks \in BOOLEAN
    /\ rows = 0
    /\ columns = 0
    /\ root_ray_node = 0
    /\ ray_map = <<>>
    /\ ray_nodes = <<>>
    /\ d7_r = 0
    /\ d7_result = 0
    /\ d7_pc = "start"
    /\ rays = {}
    /\ total_splits = 0

\* lines 113-137: the body of the loop over r
D7SplitRow ==
    /\ d7_pc = "rows"
    /\ d7_r < rows
    /\ ~(overflow_checks /\ SplitScanned(d7_r).underflow)
    /\ total_splits' = SplitScanned(d7_r).total_splits
    /\ rays' = RaysAfterRow(SplitScanned(d7_r).rays, SplitScanned(d7_r).remove,
                            SplitScanned(d7_r).add)
    /\ d7_r' = d7_r + 2
    /\ UNCHANGED <<d7_file, overflow_checks, rows, columns, d7_pc>>
    /\ UNCHANGED others7p1

\* line 125: c - 1 for c = 0 panics in a build with overflow checks
D7SplitPanicUnderflow ==
    /\ d7_pc = "rows"
    /\ d7_r < rows
    /\ overflow_checks /\ SplitScanned(d7_r).underflow
    /\ d7_pc' = "panic"
    /\ UNCHANGED <<d7_file, overflow_checks, rows, columns, d7_r, rays, total_splits>>
    /\ UNCHANGED others7p1

\* line 138: total_splits is returned
D7SplitReturn ==
    /\ d7_pc = "rows"
    /\ d7_r >= rows
    /\ d7_pc' = "done"
    /\ UNCHANGED <<d7_file, overflow_checks, rows, columns, d7_r, rays, total_splits>>
    /\ UNCHANGED others7p1

NextDay7Puzzle1 ==
    \/ D7PanicNoGrid
    \/ D7TryFrom
    \/ D7SplitRow
    \/ D7SplitPanicUnderflow
    \/ D7SplitReturn

(***************************************************************************)
(* Day 7 puzzle1: the splitters that a ray meets                           *)
(***************************************************************************)
\* Whether a ray is in column c (from 1) when the even row r >= 2 is
\* processed: the ray of S for the first such row; below, a ray that passed
\* the row above in this column, or one sent here by a splitter next to it
RECURSIVE RayPresent(_, _, _)
RayPresent(lines, r, c) ==
    IF r = 2 THEN c = StartColumn(lines)
    ELSE \/ RayPresent(lines, r - 2, c) /\ ~IsSplitter(lines, r - 2, c)
         \/ IsSplitter(lines, r - 2, c - 1) /\ RayPresent(lines, r - 2, c - 1)
         \/ IsSplitter(lines, r - 2, c + 1) /\ RayPresent(lines, r - 2, c + 1)

\* The splitter cells of the even rows on which a ray is present
HitSplitters(lines) ==
    {cell \in {r \in 2..(Len(lines) - 1) : r % 2 = 0} \X (1..Len(lines[1])) :
        IsSplitter(lines, cell[1], cell[2]) /\ RayPresent(lines, cell[1], cell[2])}

\* C12: for a rectangular grid with S in row 0, the value puzzle1 returns
\* is the number of splitter cells of the even rows on which a ray is
\* present when the row is processed, where a ray on a splitter is replaced
\* by rays at column-1 and column+1 and rays landing on one column are one
\* ray; every hit splitter counts once.
C12_Puzzle1CountsHitSplitters ==
    (d7_pc = "done" /\ IsGrid(d7_file)) =>
        total_splits = Cardinality(HitSplitters(FileLines(d7_file)))

\* A returned run where two rays split in one row met in the column between
\* them and the merged ray was split again, with a splitter left that no
\* ray met and no column to the left of the grid involved
C12_Witness ==
    /\ d7_pc = "done"
    /\ IsGrid(d7_file)
    /\ total_splits = Cardinality(HitSplitters(FileLines(d7_file)))
    /\ \E cell \in HitSplitters(FileLines(d7_file)) :
          /\ <<cell[1], cell[2] + 2>> \in HitSplitters(FileLines(d7_file))
          /\ <<cell[1] + 2, cell[2] + 1>> \in HitSplitters(FileLines(d7_file))
    /\ \E r \in 2..(Len(FileLines(d7_file)) - 1), c \in 1..Len(FileLines(d7_file)[1]) :
          /\ r % 2 = 0
          /\ IsSplitter(FileLines(d7_file), r, c)
          /\ <<r, c>> \notin HitSplitters(FileLines(d7_file))
    /\ \A cell \in HitSplitters(FileLines(d7_file)) : cell[2] # 1

(***************************************************************************)
(* Day 6 puzzle1: the worksheet read cell by cell                          *)
(* (src/src/solutions/day6.rs)                                             *)
(***************************************************************************)
\* the bytes of a cell without the minus sign
IsCellCharUnsigned(c, is_last_offset) == ~is_last_offset /\ IsDigitChar(c)

\* line 66: !is_last_offset && (c.is_ascii_digit() || c == '-')
IsCellChar(c, is_last_offset) == ~is_last_offset /\ (IsDigitChar(c) \/ c = "-")

\* lines 59-75: the loop over the offsets lo..hi of a line: the first offset
\* not taken, how the loop ended and num_string
RECURSIVE ReadCell(_, _, _, _, _)
ReadCell(file, lo, hi, is_last_offset, str) ==
    IF lo >= hi THEN [lo |-> lo, end |-> "exhausted", str |-> str]
    ELSE LET c == file[lo + 1]
         IN  IF IsWhitespace(c) /\ str # <<>>
             THEN [lo |-> lo + 1, end |-> "number", str |-> str]
             ELSE IF IsCellChar(c, is_last_offset)
             THEN ReadCell(file, lo + 1, hi, is_last_offset, Append(str, c))
             ELSE IF c = "+" THEN [lo |-> lo + 1, end |-> "add", str |-> str]
             ELSE IF c = "*" THEN [lo |-> lo + 1, end |-> "multiply", str |-> str]
             ELSE ReadCell(file, lo + 1, hi, is_last_offset, str)

\* lines 55-75: the cell read from line i
CellOfLine ==
    ReadCell(d6_file, current_offsets[d6_i + 1][1], current_offsets[d6_i + 1][2],
             d6_i = Len(current_offsets) - 1, <<>>)

\* ---- inputs ----
\* files of 1..SheetRows operand lines of 1..SheetColumns cells and an
\* operator line; an operand line holds the texts of CellTexts in turn,
\* begun at any of them
SheetRows == 2
SheetColumns == 2
CellTexts == << <<"2">>, <<"1", "3">>, <<"-", "4">>, <<" ", "0">> >>
RECURSIVE LineFrom(_, _)
LineFrom(p, n) ==
    IF n = 0 THEN <<"\n">>
    ELSE CellTexts[(p % Len(CellTexts)) + 1] \o (IF n = 1 THEN <<>> ELSE <<" ">>)
           \o LineFrom(p + 1, n - 1)
RECURSIVE OperandLines(_)
OperandLines(ps) ==
    IF ps = <<>> THEN <<>>
    ELSE LineFrom(ps[1][1], ps[1][2]) \o OperandLines(Tail(ps))
RECURSIVE OperatorLine(_)
OperatorLine(ops) ==
    IF ops = <<>> THEN <<"\n">> ELSE <<ops[1], " ">> \o OperatorLine(Tail(ops))
Sheets ==
    UNION {{OperandLines([k \in 1..r |-> <<ps[k], n>>]) \o OperatorLine(ops) :
                ps \in [1..r -> 1..Len(CellTexts)], ops \in [1..n -> {"+", "*"}]} :
            r \in 1..SheetRows, n \in 1..SheetColumns}
\* the same files without the newline that ends the operator line
UnterminatedSheets == {SubSeq(f, 1, Len(f) - 1) : f \in Sheets}
\* the empty file; a cell that is no integer; operand lines of 2 and of 1
\* cells; a file without operator line; an operand line without operator
OtherSheets ==
    {<<>>,
     <<"5", "-", "\n", "+", "\n">>,
     <<"1", " ", "2", "\n", "3", "\n", "+", " ", "*", "\n">>,
     <<"3", "\n">>,
     <<"3", "\n", " ", "\n">>}
D6Puzzle1Files == Sheets \cup UnterminatedSheets \cup OtherSheets

InitDay6Puzzle1 ==
    /\ idle6
    /\ d6_file \in D6Puzzle1Files
    /\ current_offsets = <<>>
    /\ total_sum = 0
    /\ keep_processing = FALSE
    /\ numbers = <<>>
    /\ operation = "None"
    /\ num_string = <<>>
    /\ d6_i = 0
    /\ d6_pc = "start"

\* lines 54-76: the body of the for loop for line i
D6Puzzle1Line ==
    /\ d6_pc = "lines"
    /\ d6_i < Len(current_offsets)
    /\ ~(CellOfLine.end = "number" /\ ~ParseI64(CellOfLine.str).ok)
    /\ current_offsets' = [current_offsets EXCEPT ![d6_i + 1] = <<CellOfLine.lo, @[2]>>]
    /\ num_string' = CellOfLine.str
    /\ numbers' = IF CellOfLine.end = "number"
                  THEN Append(numbers, ParseI64(CellOfLine.str).val) ELSE numbers
    /\ operation' = IF CellOfLine.end = "add" THEN "Add"
                    ELSE IF CellOfLine.end = "multiply" THEN "Multiply" ELSE operation
    /\ d6_i' = d6_i + 1
    /\ UNCHANGED <<d6_file, total_sum, keep_processing, d6_pc>>
    /\ UNCHANGED others6

\* line 64: expect() on a num_string that is no integer
D6Puzzle1PanicParse ==
    /\ d6_pc = "lines"
    /\ d6_i < Len(current_offsets)
    /\ CellOfLine.end = "number" /\ ~ParseI64(CellOfLine.str).ok
    /\ d6_pc' = "panic"
    /\ UNCHANGED <<d6_file, current_offsets, total_sum, keep_processing, numbers,
                   operation, num_string, d6_i>>
    /\ UNCHANGED others6

\* lines 50-52, 77-87: the operation of the column is applied and the loop
\* runs again with new numbers and operation
D6Puzzle1Apply ==
    /\ d6_pc = "lines"
    /\ d6_i >= Len(current_offsets)
    /\ Applies(operation, numbers)
    /\ total_sum' = total_sum + Applied(operation, numbers)
    /\ numbers' = <<>>
    /\ operation' = "None"
    /\ num_string' = <<>>
    /\ d6_i' = 0
    /\ UNCHANGED <<d6_file, current_offsets, keep_processing, d6_pc>>
    /\ UNCHANGED others6

\* lines 88-93: no operation or no number was found, total_sum is returned
D6Puzzle1Return ==
    /\ d6_pc = "lines"
    /\ d6_i >= Len(current_offsets)
    /\ ~Applies(operation, numbers)
    /\ d6_pc' = "done"
    /\ UNCHANGED <<d6_file, current_offsets, total_sum, keep_processing, numbers,
                   operation, num_string, d6_i>>
    /\ UNCHANGED others6

NextDay6Puzzle1 ==
    \/ D6Scan
    \/ D6Puzzle1Line
    \/ D6Puzzle1PanicParse
    \/ D6Puzzle1Apply
    \/ D6Puzzle1Return

(***************************************************************************)
(* Day 6 puzzle1: the worksheet as lines of integers                       *)
(***************************************************************************)
\* The pieces of a line between blanks
RECURSIVE NonEmpty(_)
NonEmpty(parts) ==
    IF parts = <<>> THEN <<>>
    ELSE (IF parts[1] = <<>> THEN <<>> ELSE <<parts[1]>>) \o NonEmpty(Tail(parts))
Tokens(line) == NonEmpty(Split(line, " "))

\* Decimal digits with an optional minus sign before them
IsIntegerText(t) ==
    LET digits == IF t[1] = "-" THEN Tail(t) ELSE t
    IN  digits # <<>> /\ \A k \in 1..Len(digits) : IsDigitChar(digits[k])
IntegerValue(t) == IF t[1] = "-" THEN -DigitsValue(Tail(t)) ELSE DigitsValue(t)

\* One or more operand lines of N >= 1 integers each, then a line of N
\* symbols '+' or '*'
IsOperandSheet(file) ==
    LET lines == FileLines(file)
    IN  /\ Len(lines) >= 2
        /\ Len(Tokens(lines[1])) >= 1
        /\ \A r \in 1..(Len(lines) - 1) :
              /\ Len(Tokens(lines[r])) = Len(Tokens(lines[1]))
              /\ \A k \in 1..Len(Tokens(lines[r])) : IsIntegerText(Tokens(lines[r])[k])
        /\ Len(Tokens(lines[Len(lines)])) = Len(Tokens(lines[1]))
        /\ \A k \in 1..Len(Tokens(lines[Len(lines)])) :
              Tokens(lines[Len(lines)])[k] \in {<<"+">>, <<"*">>}

\* The k-th operator applied to the k-th integer of every operand line
ColumnResult(lines, k) ==
    LET operands == [r \in 1..(Len(lines) - 1) |-> IntegerValue(Tokens(lines[r])[k])]
    IN  IF Tokens(lines[Len(lines)])[k] = <<"+">> THEN SumOf(operands)
        ELSE ProductOf(operands)

\* The sum of the results of columns 1..n
RECURSIVE SheetTotal(_, _)
SheetTotal(lines, n) ==
    IF n = 0 THEN 0 ELSE SheetTotal(lines, n - 1) + ColumnResult(lines, n)

\* The cursor of every line stays or moves forward, and its end stays
CursorsForward ==
    \A k \in (DOMAIN current_offsets) \cap (DOMAIN current_offsets') :
        /\ current_offsets'[k][1] >= current_offsets[k][1]
        /\ current_offsets'[k][2] = current_offsets[k][2]

\* C13: for a file of R operand lines of N whitespace-separated integers
\* each and an operator line of N symbols '+' or '*', puzzle1 returns the
\* sum over k of the k-th operator applied to the k-th integers of the
\* operand lines (sum for '+', product for '*'); the cursor of a line only
\* moves forward, so no byte is taken twice.
C13_Puzzle1AppliesEachOperator ==
    /\ [](IsOperandSheet(d6_file) =>
            /\ d6_pc # "panic"
            /\ d6_pc = "done" =>
                 total_sum = SheetTotal(FileLines(d6_file),
                                        Len(Tokens(FileLines(d6_file)[1]))))
    /\ [][CursorsForward]_vars

\* A returned run on a sheet of two operand lines and two columns, one
\* added and one multiplied, with a negative integer and a cell after two
\* blanks, where every cursor has reached the end of its line
C13_Witness ==
    /\ d6_pc = "done"
    /\ IsOperandSheet(d6_file)
    /\ Len(FileLines(d6_file)) = 3
    /\ Tokens(FileLines(d6_file)[3]) = << <<"*">>, <<"+">> >>
    /\ \E r \in 1..2 : \E k \in 1..Len(FileLines(d6_file)[r]) :
          FileLines(d6_file)[r][k] = "-"
    /\ \E r \in 1..2 : \E k \in 1..(Len(FileLines(d6_file)[r]) - 1) :
          FileLines(d6_file)[r][k] = " " /\ FileLines(d6_file)[r][k + 1] = " "
    /\ total_sum < 0
    /\ \A k \in 1..2 : current_offsets[k][1] = current_offsets[k][2]

(***************************************************************************)
(* Day 5 puzzle1: the interval tree (src/src/solutions/day5.rs)            *)
(***************************************************************************)
\* lines 93-111: build_from_intervals on a sorted list; None is <<>> and
\* Some(node) is <<node>>
\* the first interval taken for the node
MidFirst(len) == 0

\* line 98: let mid = intervals.len()/2
Mid(len) == len \div 2

RECURSIVE build_from_intervals(_)
build_from_intervals(list) ==
    IF list = <<>> THEN <<>>
    ELSE LET mid == Mid(Len(list))
             r == list[mid + 1]
             left == build_from_intervals(SubSeq(list, 1, mid))
             right == build_from_intervals(SubSeq(list, mid + 2, Len(list)))
             left_max == IF left = <<>> THEN r[2] ELSE MergedEnd(r[2], left[1].max)
             max == IF right = <<>> THEN left_max ELSE MergedEnd(left_max, right[1].max)
         IN  << [interval |-> r, max |-> max, left |-> left, right |-> right] >>

\* RangeInclusive::contains
RangeContains(r, integer) == r[1] <= integer /\ integer <= r[2]

\* the left child alone pushed to the queue
PushedLeftOnly(n) == n.left

\* lines 120-125: the children pushed to the back of the queue
Pushed(n) == n.left \o n.right

\* lines 116-127: the while loop over the queue
RECURSIVE ContainsFrom(_, _)
ContainsFrom(queue, integer) ==
    IF queue = <<>> THEN FALSE
    ELSE IF RangeContains(queue[1].interval, integer) THEN TRUE
    ELSE ContainsFrom(Tail(queue) \o Pushed(queue[1]), integer)

\* lines 112-128: IntervalNode::contains
contains(node, integer) == ContainsFrom(<<node>>, integer)

\* lines 47-48: the lines of the second section of the input
IntegerLines(input) == Split(SplitOnce(Trim(input)).after, "\n")

\* ---- inputs ----
\* up to TreeIntervals intervals out of six between FirstValue and
\* LastValue, one of them with its start above its end, and a list of
\* integers out of three
TreeIntervals == 4
TreeIntervalStrs ==
    {RangeStr(FirstValue, LastValue), RangeStr(FirstValue, FirstValue),
     RangeStr(FirstValue + 1, FirstValue + 1), RangeStr(FirstValue + 2, FirstValue + 3),
     RangeStr(LastValue - 1, LastValue), RangeStr(LastValue, FirstValue)}
IntegerTexts ==
    {<<U64ToString(FirstValue + 1), U64ToString(LastValue - 1)>>,
     <<U64ToString(FirstValue - 1), U64ToString(FirstValue + 2), U64ToString(FirstValue + 2),
       U64ToString(LastValue + 1)>>,
     <<U64ToString(LastValue)>>}
TreeInputs ==
    {Join(lines, "\n") \o <<"\n", "\n">> \o Join(integers, "\n") \o <<"\n">> :
        lines \in UNION {[1..n -> TreeIntervalStrs] : n \in 1..TreeIntervals},
        integers \in IntegerTexts}
\* the inputs that make puzzle2 panic; an integer with a blank before it;
\* a negative integer
OtherTreeInputs ==
    OtherInputs \cup
    {<<"8", "-", "9", "\n", "\n", "9", "\n", " ", "8">>,
     <<"8", "-", "9", "\n", "\n", "-", "1", "\n", "8">>}
D5Puzzle1Inputs == TreeInputs \cup OtherTreeInputs

InitDay5Puzzle1 ==
    /\ idle5
    /\ d5_input \in D5Puzzle1Inputs
    /\ intervals = <<>>
    /\ d5_next = 1
    /\ total = 0
    /\ current_start = 0
    /\ current_end = 0
    /\ d5_pc = "start"
    /\ root_node = <<>>
    /\ d5_count = 0

\* lines 38-46, 84-89: the intervals are collected, sorted by their start
\* and the tree is built
D5BuildTree ==
    /\ d5_pc = "start"
    /\ SplitOnce(Trim(d5_input)).ok
    /\ \A k \in 1..Len(IntervalLines(d5_input)) :
          parse_inclusive_range(IntervalLines(d5_input)[k]).ok
    /\ intervals' = SortByStart(Collected(d5_input))
    /\ root_node' = build_from_intervals(intervals')
    /\ d5_next' = 1
    /\ d5_count' = 0
    /\ d5_pc' = "integers"
    /\ UNCHANGED d5_input
    /\ UNCHANGED others5p1

\* lines 47-51: the next integer is parsed, looked up and counted
D5Integer ==
    /\ d5_pc = "integers"
    /\ LET integers == IntegerLines(d5_input)
       IN  /\ d5_next <= Len(integers)
           /\ ParseI64(integers[d5_next]).ok
           /\ d5_count' = d5_count +
                 (IF contains(root_node[1], ParseI64(integers[d5_next]).val)
                  THEN 1 ELSE 0)
    /\ d5_next' = d5_next + 1
    /\ UNCHANGED <<d5_input, intervals, root_node, d5_pc>>
    /\ UNCHANGED others5p1

\* line 49: expect() on a line that is no integer
D5PanicInteger ==
    /\ d5_pc = "integers"
    /\ LET integers == IntegerLines(d5_input)
       IN  d5_next <= Len(integers) /\ ~ParseI64(integers[d5_next]).ok
    /\ d5_pc' = "panic"
    /\ UNCHANGED <<d5_input, intervals, d5_next, root_node, d5_count>>
    /\ UNCHANGED others5p1

\* lines 51-52: the count is returned
D5Puzzle1Return ==
    /\ d5_pc = "integers"
    /\ d5_next > Len(IntegerLines(d5_input))
    /\ d5_pc' = "done"
    /\ UNCHANGED <<d5_input, intervals, d5_next, root_node, d5_count>>
    /\ UNCHANGED others5p1

NextDay5Puzzle1 ==
    \/ D5PanicNoSections
    \/ D5PanicInterval
    \/ D5BuildTree
    \/ D5Integer
    \/ D5PanicInteger
    \/ D5Puzzle1Return

(***************************************************************************)
(* Day 5 puzzle1: the linear scan                                          *)
(***************************************************************************)
\* Whether one of the ranges, in the order the input gives them, holds the
\* value
ScanOver(written, value) ==
    \E k \in 1..Len(written) : written[k][1] <= value /\ value <= written[k][2]
ScanFinds(input, value) == ScanOver(Collected(input), value)

\* The number of the query values that a range holds
RECURSIVE FreshCount(_, _)
FreshCount(written, queries) ==
    IF queries = <<>> THEN 0
    ELSE FreshCount(written, Tail(queries)) +
           (IF ScanOver(written, ParseI64(queries[1]).val) THEN 1 ELSE 0)

\* C14: the value puzzle1 returns is the number of query values, counted
\* with multiplicity, that lie in at least one range of the input; and for
\* every value IntervalNode::contains on the tree is true exactly when a
\* linear scan over the ranges of the input finds a range holding it.
C14_Puzzle1CountsValuesInRanges ==
    /\ d5_pc = "done" =>
          LET written == Collected(d5_input)
          IN  d5_count = FreshCount(written, IntegerLines(d5_input))
    /\ root_node # <<>> =>
          LET written == Collected(d5_input)
          IN  \A value \in (FirstValue - 2)..(LastValue + 2) :
                  contains(root_node[1], value) <=> ScanOver(written, value)

\* A returned run on a tree of three levels, with a repeated query value
\* that no range before the middle of the sorted list holds and a query
\* value that no range holds
C14_Witness ==
    /\ d5_pc = "done"
    /\ Len(intervals) >= 4
    /\ root_node[1].right # <<>>
    /\ root_node[1].left # <<>> /\ root_node[1].left[1].left # <<>>
    /\ \E n, m \in 1..Len(IntegerLines(d5_input)) :
          /\ n # m
          /\ IntegerLines(d5_input)[n] = IntegerLines(d5_input)[m]
          /\ ScanFinds(d5_input, ParseI64(IntegerLines(d5_input)[n]).val)
          /\ \A k \in 1..((Len(intervals) \div 2) + 1) :
                ~RangeContains(intervals[k], ParseI64(IntegerLines(d5_input)[n]).val)
    /\ \E n \in 1..Len(IntegerLines(d5_input)) :
          ~ScanFinds(d5_input, ParseI64(IntegerLines(d5_input)[n]).val)
    /\ d5_count = 2

(***************************************************************************)
(* Day 4 puzzle1: the rolls that can be reached                            *)
(***************************************************************************)
\* C15: for every grid of one or more rows of equal length, the value
\* puzzle1 returns is the number of '@' cells with fewer than 4 '@' cells
\* among their 8 neighbours, positions outside the grid holding no '@';
\* and the grid is the input from the first cell to the return.
C15_Puzzle1CountsAccessibleRolls ==
    d4_fn = "puzzle1" =>
        /\ d4_pc \in {"cells", "done"} => matrix = d4_input
        /\ d4_pc = "done" => final_count = Cardinality(Accessible(Rolls(d4_input)))

\* A returned puzzle1 run that counted a roll in a corner and one inside the
\* grid, and left out a roll with 4 neighbours and one with 8
C15_Witness ==
    /\ d4_fn = "puzzle1"
    /\ d4_pc = "done"
    /\ final_count = Cardinality(Accessible(Rolls(d4_input)))
    /\ <<1, 1>> \in Accessible(Rolls(d4_input))
    /\ \E p \in Accessible(Rolls(d4_input)) :
          p[1] \in 2..(Len(d4_input) - 1) /\ p[2] \in 2..(LenJ(d4_input) - 1)
    /\ \E p \in Rolls(d4_input) : Cardinality(Neighbours(Rolls(d4_input), p)) = 4
    /\ \E p \in Rolls(d4_input) : Cardinality(Neighbours(Rolls(d4_input), p)) = 8

(***************************************************************************)
(* Day 2: the items that from_str rejects                                  *)
(***************************************************************************)
\* The items of strs that from_str accepts, in their order
RECURSIVE Accepted(_)
Accepted(strs) ==
    IF strs = <<>> THEN <<>>
    ELSE (IF FromStr(strs[1]).ok THEN <<strs[1]>> ELSE <<>>) \o Accepted(Tail(strs))

\* What the loop body of fn adds to sum for one item
ItemSum(fn, str) ==
    LET r == FromStr(str)
    IN  IF ~r.ok THEN 0
        ELSE IF fn = "puzzle1" /\ SkipsRange(r.from, r.to) THEN 0
        ELSE SetSum({n \in r.from..r.to :
                        IF fn = "puzzle1" THEN Puzzle1Counts(n) ELSE Puzzle2Counts(n)})

\* What fn returns for the input made of the items strs
RECURSIVE ResultOn(_, _)
ResultOn(fn, strs) ==
    IF strs = <<>> THEN 0 ELSE ItemSum(fn, strs[1]) + ResultOn(fn, Tail(strs))

\* At an item that from_str rejects the loop goes on to the next item with
\* the sum it has
SkipsRejected ==
    (d2_pc = "ranges" /\ d2_next <= Len(ranges) /\ ~FromStr(ranges[d2_next]).ok)
        => (d2_pc' = "ranges" /\ d2_next' = d2_next + 1 /\ sum' = sum)

\* C16: an item that from_str rejects ends neither puzzle1 nor puzzle2: the
\* loop goes on with the next item, and the value returned is the value
\* returned for the same list without the rejected items.
C16_MalformedItemsAreSkipped ==
    /\ [](d2_pc = "done" => sum = ResultOn(d2_fn, Accepted(ranges)))
    /\ [][SkipsRejected]_vars

\* A returned run whose first item was rejected and whose second item added
\* to the sum
C16_Witness ==
    /\ d2_pc = "done"
    /\ Len(ranges) >= 2
    /\ ~FromStr(ranges[1]).ok
    /\ FromStr(ranges[2]).ok
    /\ sum > 0
    /\ sum = ResultOn(d2_fn, <<ranges[2]>>)

(***************************************************************************)
(* Day 2: NumberRange::from_str on its own (src/src/solutions/day2.rs)     *)
(***************************************************************************)
\* the range with its bounds exchanged
NumberRangeSwapped(from, to) == <<to, from>>

\* line 88, 108: the tuple struct NumberRange(from, to)
NumberRange(from, to) == <<from, to>>

\* ---- inputs ----
\* "a-b" for all a, b in 0..MaxBound and for some longer numbers, and
\* strings that are no such text
MaxBound == 11
BoundPairs ==
    ((0..MaxBound) \X (0..MaxBound))
        \cup {<<99, 100>>, <<100, 99>>, <<999, 1000000>>, <<1000000, 1000000>>}
OtherStrs ==
    {<<>>, <<"i", "n", "v", "a", "l", "i", "d">>, <<"1", "2">>,
     <<"-">>, <<"1", "-">>, <<"-", "1">>, <<"-", "-">>,
     <<"1", "-", "2", "-", "3">>, <<"1", "-", "-", "2">>, <<"-", "1", "-", "2">>,
     <<"0", "1", "-", "2">>, <<"1", "-", "0", "2">>, <<"0", "0", "-", "0", "1">>,
     <<"x", "-", "1">>, <<"1", "-", "x">>, <<"+", "1", "-", "2">>,
     <<" ", "1", "-", "2">>, <<"1", " ", "-", " ", "2">>}
FromStrInputs == {RangeStr(p[1], p[2]) : p \in BoundPairs} \cup OtherStrs

InitDay2FromStr ==
    /\ idle2
    /\ d2_fn = "from_str"
    /\ d2_input \in FromStrInputs
    /\ ranges = <<>>
    /\ d2_next = 1
    /\ range = <<0, 0>>
    /\ d2_i = 0
    /\ sum = 0
    /\ d2_pc = "from_str"

\* line 108: Ok(NumberRange(from, to))
D2FromStrOk ==
    /\ d2_pc = "from_str"
    /\ FromStr(d2_input).ok
    /\ range' = NumberRange(FromStr(d2_input).from, FromStr(d2_input).to)
    /\ d2_pc' = "ok"
    /\ UNCHANGED <<d2_fn, d2_input, ranges, d2_next, d2_i, sum>>
    /\ UNCHANGED others2

\* lines 93, 100, 102-103, 105-106: one of the Err returns
D2FromStrErr ==
    /\ d2_pc = "from_str"
    /\ ~FromStr(d2_input).ok
    /\ d2_pc' = "err"
    /\ UNCHANGED <<d2_fn, d2_input, ranges, d2_next, range, d2_i, sum>>
    /\ UNCHANGED others2

NextDay2FromStr == D2FromStrOk \/ D2FromStrErr

(***************************************************************************)
(* Day 2: the texts of pairs of integers, and the texts that are none      *)
(***************************************************************************)
\* from_str has returned Ok((start, end)) and the bounds written again give
\* the text that was parsed
RoundTrips(start, end) ==
    /\ d2_pc = "ok"
    /\ range = <<start, end>>
    /\ RangeStr(range[1], range[2]) = d2_input

\* The original statement of C17: for every start <= end, "start-end"
\* parses to (start, end) and the bounds written again give the same text.
C17_EveryOrderedPairRoundTrips ==
    d2_pc \in {"ok", "err"} =>
        \A p \in BoundPairs :
            (p[1] <= p[2] /\ d2_input = RangeStr(p[1], p[2])) => RoundTrips(p[1], p[2])

\* C17: for every pair of integers 1 <= start < end (within u64), written
\* without leading zeros, from_str on "start-end" returns Ok with the range
\* (start, end), and writing its bounds again gives the same text.
C17_EveryIncreasingPairRoundTrips ==
    d2_pc \in {"ok", "err"} =>
        \A p \in BoundPairs :
            (1 <= p[1] /\ p[1] < p[2] /\ d2_input = RangeStr(p[1], p[2]))
                => RoundTrips(p[1], p[2])

\* from_str has accepted a text whose bounds have different numbers of
\* digits, and the bounds written again give that text
C17_Witness ==
    /\ RoundTrips(range[1], range[2])
    /\ range[1] >= 1
    /\ range[1] < 10
    /\ range[2] >= 10
    /\ <<range[1], range[2]>> \in BoundPairs

\* The text has no '-'
NoDelimiter(str) == \A k \in 1..Len(str) : str[k] # "-"

\* Nothing stands before the first '-', or nothing after it
EmptyPart(str) ==
    /\ ~NoDelimiter(str)
    /\ \/ str[1] = "-"
       \/ \A k \in 1..Len(str) : str[k] = "-" => k = Len(str)

\* The text has two or more '-'
SeveralDelimiters(str) == Cardinality({k \in 1..Len(str) : str[k] = "-"}) > 1

\* The text begins with '0' or has a '0' right after its first '-'
EndpointBeginsWithZero(str) ==
    /\ ~NoDelimiter(str)
    /\ \/ str[1] = "0"
       \/ \E k \in 1..(Len(str) - 1) :
             /\ str[k] = "-"
             /\ \A j \in 1..(k - 1) : str[j] # "-"
             /\ str[k + 1] = "0"

\* Digits, one '-', digits, the second number smaller than the first
SecondBoundSmaller(str) ==
    \E k \in 2..(Len(str) - 1) :
        /\ str[k] = "-"
        /\ \A j \in (1..Len(str)) \ {k} : IsDigitChar(str[j])
        /\ DigitsValue(SubSeq(str, k + 1, Len(str))) < DigitsValue(SubSeq(str, 1, k - 1))

\* C18: from_str returns an error, and no range, for every text that has no
\* '-', has an empty part before or after the '-', has more than one '-',
\* has an endpoint beginning with '0', or has a second bound smaller than
\* the first.
C18_FromStrRejects ==
    (/\ d2_pc \in {"ok", "err"}
     /\ \/ NoDelimiter(d2_input)
        \/ EmptyPart(d2_input)
        \/ SeveralDelimiters(d2_input)
        \/ EndpointBeginsWithZero(d2_input)
        \/ SecondBoundSmaller(d2_input))
        => (d2_pc = "err" /\ range = <<0, 0>>)

\* from_str has rejected a text for the order of its bounds alone
C18_Witness ==
    /\ d2_pc = "err"
    /\ SecondBoundSmaller(d2_input)
    /\ ~EndpointBeginsWithZero(d2_input)
    /\ ~SeveralDelimiters(d2_input)
    /\ ~EmptyPart(d2_input)

(***************************************************************************)
(* Day 1: the arguments that end a run without a count                     *)
(***************************************************************************)
\* The rotation begins with L or R
BeginsWithDirection(rotation) == rotation # <<>> /\ rotation[1] \in {"L", "R"}

\* The text is a non-negative integer: decimal digits, with or without a
\* '+' before them
IsNonNegativeInteger(text) ==
    LET digits == IF text # <<>> /\ text[1] = "+" THEN Tail(text) ELSE text
    IN  digits # <<>> /\ \A k \in 1..Len(digits) : digits[k] \in {DigitChars[d] : d \in 1..10}

\* A rotation without direction, or without a non-negative integer after it
IsMalformedRotation(rotation) ==
    ~BeginsWithDirection(rotation) \/ ~IsNonNegativeInteger(Tail(rotation))

\* The step taken at the test of the start position when it is above 99, and
\* at a malformed rotation when the loop reaches it, is the panic
PanicsWhereMalformed ==
    (\/ d1_pc = "start" /\ init_pos > 99
     \/ /\ d1_pc = "loop"
        /\ d1_next <= Len(rotations)
        /\ IsMalformedRotation(rotations[d1_next]))
        => d1_pc' = "panic"

\* C19: puzzle1 and puzzle2 panic and return no count when the start
\* position is above 99 (also with no rotation), when a rotation does not
\* begin with L or R, or when the text after the direction is no
\* non-negative integer; the count of the rotations before the malformed
\* one is not returned.
C19_MalformedArgumentsPanic ==
    /\ [](d1_pc = "done" =>
            /\ init_pos <= 99
            /\ \A k \in 1..Len(rotations) : ~IsMalformedRotation(rotations[k]))
    /\ [][PanicsWhereMalformed]_vars

\* A run that has panicked at its second rotation after the first one had
\* stopped at 0 and been counted
C19_Witness ==
    /\ d1_pc = "panic"
    /\ init_pos <= 99
    /\ d1_next = 2
    /\ ~IsMalformedRotation(rotations[1])
    /\ IsMalformedRotation(rotations[2])
    /\ zero_count > 0

(***************************************************************************)
(* Day 5: the order of the bounds of a parsed range                        *)
(***************************************************************************)
\* C20: every range that parse_inclusive_range returns has start <= end
\* when it is used: no range with start > end is among the intervals the
\* tree of puzzle1 is built from.
C20_ParsedRangesAreOrdered ==
    d5_pc \in {"integers", "done"} =>
        /\ Ordered(intervals)
        /\ \A k \in 1..Len(IntervalLines(d5_input)) :
              LET r == parse_inclusive_range(IntervalLines(d5_input)[k])
              IN  r.ok => r.start <= r.end

(***************************************************************************)
(* Day 5: the tree that IntervalNode::from builds                          *)
(***************************************************************************)
\* The ranges of a subtree (<<>> or <<node>>), left subtree first, then the
\* node, then the right subtree
RECURSIVE InOrder(_)
InOrder(subtree) ==
    IF subtree = <<>> THEN <<>>
    ELSE InOrder(subtree[1].left) \o <<subtree[1].interval>> \o InOrder(subtree[1].right)

\* The nodes of a subtree
RECURSIVE NodesOf(_)
NodesOf(subtree) ==
    IF subtree = <<>> THEN {}
    ELSE {subtree[1]} \cup NodesOf(subtree[1].left) \cup NodesOf(subtree[1].right)

\* The greatest end among the ranges of a non-empty list
GreatestEnd(list) ==
    CHOOSE e \in {list[k][2] : k \in 1..Len(list)} : \A k \in 1..Len(list) : list[k][2] <= e

\* How often x stands in list
Occurrences(list, x) == Cardinality({k \in 1..Len(list) : list[k] = x})

\* C21: in the tree built by IntervalNode::from, the max of every node is
\* the greatest end among the ranges of the subtree of that node; a value
\* above the max of a node lies in no range of its subtree.
C21_MaxIsGreatestEndOfSubtree ==
    root_node # <<>> =>
        \A n \in NodesOf(root_node) :
            LET stored == InOrder(<<n>>)
            IN  /\ n.max = GreatestEnd(stored)
                /\ \A value \in (FirstValue - 2)..(LastValue + 2) :
                      value > n.max => ~ScanOver(stored, value)

\* A tree of three levels whose root takes its max from a grandchild and
\* not from its own range, with a value between the two
C21_Witness ==
    /\ root_node # <<>>
    /\ root_node[1].left # <<>>
    /\ root_node[1].left[1].left # <<>>
    /\ root_node[1].max = root_node[1].left[1].left[1].interval[2]
    /\ root_node[1].max > root_node[1].interval[2] + 1
    /\ root_node[1].left[1].max > root_node[1].left[1].interval[2]
    /\ root_node[1].right # <<>> => root_node[1].right[1].max < root_node[1].max

\* C22: for every non-empty list of ranges the tree holds every range of
\* the input as often as the input does, its in-order traversal has the
\* starts in non-decreasing order, and at every node the numbers of ranges
\* in the left and in the right subtree differ by at most one.
C22_TreeIsSortedAndBalanced ==
    root_node # <<>> =>
        LET stored == InOrder(root_node)
            written == Collected(d5_input)
        IN  /\ Len(stored) = Len(written)
            /\ \A k \in 1..Len(written) :
                  Occurrences(stored, written[k]) = Occurrences(written, written[k])
            /\ \A k \in 1..(Len(stored) - 1) : stored[k][1] <= stored[k + 1][1]
            /\ \A n \in NodesOf(root_node) :
                  Len(InOrder(n.left)) - Len(InOrder(n.right)) \in {-1, 0, 1}

\* A tree of four ranges given out of order, one of them twice, with a left
\* subtree of two ranges and a right subtree of one
C22_Witness ==
    /\ root_node # <<>>
    /\ Len(InOrder(root_node)) = 4
    /\ Len(InOrder(root_node[1].left)) = 2
    /\ Len(InOrder(root_node[1].right)) = 1
    /\ \E k \in 1..3 : Collected(d5_input)[k][1] > Collected(d5_input)[k + 1][1]
    /\ \E k \in 1..4 : Occurrences(Collected(d5_input), Collected(d5_input)[k]) = 2
    /\ \A k \in 1..3 : InOrder(root_node)[k][1] <= InOrder(root_node)[k + 1][1]

(***************************************************************************)
(* Day 4 puzzle2: the passes come to an end                                *)
(***************************************************************************)
\* A step of puzzle2 restores no roll, and the pass that ends with
\* keep_checking set has taken at least one roll from the grid
PassRemovesForGood ==
    (d4_fn = "puzzle2" /\ d4_pc \in {"while", "cells"}) =>
        /\ Rolls(matrix') \subseteq Rolls(matrix)
        /\ Rolls(temp_matrix') \subseteq Rolls(temp_matrix)
        /\ (d4_pc = "cells" /\ d4_pc' = "while" /\ keep_checking)
              => (Rolls(matrix') # Rolls(matrix) /\ Rolls(matrix') \subseteq Rolls(matrix))

\* The numbers of passes and of removals stay within the rolls of the input
PassesAreBounded ==
    d4_fn = "puzzle2" =>
        /\ d4_passes <= Cardinality(Rolls(d4_input)) + 1
        /\ final_count <= Cardinality(Rolls(d4_input))
        /\ d4_pc \in {"while", "cells", "done"} =>
              final_count = Cardinality(Rolls(d4_input)) - Cardinality(Rolls(temp_matrix))

\* C23: puzzle2 comes to its end on every grid: every pass that does not
\* end the loop removes at least one '@', none is restored, the number of
\* passes is at most the number of '@' of the input plus one, and the count
\* returned is at most the number of '@' of the input.
C23_Puzzle2Terminates ==
    /\ []PassesAreBounded
    /\ [][PassRemovesForGood]_vars
    /\ (d4_fn = "puzzle2") ~> (d4_pc \in {"done", "panic"})

\* A returned puzzle2 run of three passes, two of which removed rolls, with
\* rolls left on the grid
C23_Witness ==
    /\ d4_fn = "puzzle2"
    /\ d4_pc = "done"
    /\ d4_passes = 3
    /\ final_count >= 2
    /\ Rolls(matrix) # {}
    /\ final_count < Cardinality(Rolls(d4_input))

(***************************************************************************)
(* Day 7: the shape of the ray graph                                       *)
(***************************************************************************)
\* The children of the nodes of a set, and all nodes reached from a set
ChildrenOf(nodes, from) ==
    UNION {{nodes[n].children[k] : k \in 1..Len(nodes[n].children)} : n \in from}

RECURSIVE ReachedFrom(_, _)
ReachedFrom(nodes, from) ==
    LET next == from \cup ChildrenOf(nodes, from)
    IN  IF next = from THEN from ELSE ReachedFrom(nodes, next)

\* C24: in the graph of build_graph the root is the node at the position of
\* S in row 0, every child has a strictly greater line index than each of
\* its parents, and no node is reached from itself.
C24_RayGraphIsAcyclic ==
    /\ root_ray_node # 0 =>
          /\ ray_nodes[root_ray_node].line_index = 0
          /\ ray_nodes[root_ray_node].char_index < columns
          /\ ByteAt(0, ray_nodes[root_ray_node].char_index) = "S"
          /\ \A c \in 0..(ray_nodes[root_ray_node].char_index - 1) : ByteAt(0, c) # "S"
    /\ \A n \in 1..Len(ray_nodes) :
          /\ \A k \in 1..Len(ray_nodes[n].children) :
                /\ ray_nodes[n].children[k] \in 1..Len(ray_nodes)
                /\ ray_nodes[ray_nodes[n].children[k]].line_index > ray_nodes[n].line_index
          /\ n \notin ReachedFrom(ray_nodes, ChildrenOf(ray_nodes, {n}))

\* A returned graph of three levels below the root in which one node has
\* two parents
C24_Witness ==
    /\ d7_pc = "done"
    /\ \E n \in 1..Len(ray_nodes) : ray_nodes[n].line_index = 6
    /\ \E a, b \in 1..Len(ray_nodes) :
          /\ a # b
          /\ ChildrenOf(ray_nodes, {a}) \cap ChildrenOf(ray_nodes, {b}) # {}

(***************************************************************************)
(* Day 7: a file without a newline                                         *)
(***************************************************************************)
\* C25: the construction of the Grid returns an error, and no Grid,
\* whenever the file holds no newline character: the run ends in the panic
\* of expect() with no row count or line length taken from the file.
C25_NoNewlineIsAnError ==
    (FirstIndexOf(d7_file, "\n") = 0 /\ d7_pc # "start") =>
        /\ d7_pc = "panic"
        /\ rows = 0
        /\ columns = 0

(***************************************************************************)
(* Day 7: the columns of the rays                                          *)
(***************************************************************************)
\* C26: on a grid with S in row 0 every ray column stored lies in
\* 0..columns-1: no split computes column-1 for a ray at column 0, which
\* panics where overflow is checked and wraps where it is not, and no ray is
\* placed beyond the last column.
C26_RayColumnsStayInside ==
    IsGrid(d7_file) =>
        /\ d7_pc # "panic"
        /\ \A n \in 1..Len(ray_nodes) : ray_nodes[n].char_index \in 0..(columns - 1)
        /\ \A k \in DOMAIN ray_map : ray_map[k] # <<>> => k \in 0..(columns - 1)

(***************************************************************************)
(* Day 7: the count with and without the cache                             *)
(***************************************************************************)
\* The root-to-leaf paths below node n, counted with no cache
RECURSIVE PlainPaths(_, _)
RECURSIVE PlainPathsOver(_, _, _)
PlainPathsOver(nodes, children, k) ==
    IF k > Len(children) THEN 0
    ELSE PlainPaths(nodes, children[k]) + PlainPathsOver(nodes, children, k + 1)

PlainPaths(nodes, n) ==
    IF nodes[n].children = <<>> THEN 1
    ELSE PlainPathsOver(nodes, nodes[n].children, 1)

\* C27: on every graph build_graph returns, count_unique_paths with its
\* cache keyed by (line_index, char_index) gives the number of root-to-leaf
\* paths counted without a cache, and two distinct nodes at the same
\* position have equal path counts.
C27_MemoizedCountIsPlainCount ==
    d7_pc = "done" =>
        /\ d7_result = PlainPaths(ray_nodes, root_ray_node)
        /\ \A n, m \in 1..Len(ray_nodes) :
              (/\ n # m
               /\ ray_nodes[n].line_index = ray_nodes[m].line_index
               /\ ray_nodes[n].char_index = ray_nodes[m].char_index)
                  => PlainPaths(ray_nodes, n) = PlainPaths(ray_nodes, m)

\* A returned count in which two distinct nodes at one position have
\* children, so that the second is answered from the cache, and two nodes of
\* one line have different counts
C27_Witness ==
    /\ d7_pc = "done"
    /\ \E n, m \in 1..Len(ray_nodes) :
          /\ n # m
          /\ CacheKey(ray_nodes[n]) = CacheKey(ray_nodes[m])
          /\ PlainPaths(ray_nodes, n) = 2
          /\ n \in ReachedFrom(ray_nodes, {root_ray_node})
          /\ m \in ReachedFrom(ray_nodes, {root_ray_node})
    /\ \E n, m \in 1..Len(ray_nodes) :
          /\ ray_nodes[n].line_index = ray_nodes[m].line_index
          /\ PlainPaths(ray_nodes, n) # PlainPaths(ray_nodes, m)

(***************************************************************************)
(* Day 1: the two counts on the same arguments                             *)
(***************************************************************************)
\* puzzle1, lines 27-49: the count of the loop from rotation k on
RECURSIVE Puzzle1From(_, _, _)
Puzzle1From(pos, rots, k) ==
    IF k > Len(rots) THEN 0
    ELSE LET p == Puzzle1Pos(pos, Multiplier(rots[k]), Dist(rots[k]).val)
         IN  (IF p = 0 THEN 1 ELSE 0) + Puzzle1From(p, rots, k + 1)

\* puzzle2, lines 72-98: the count of the loop from rotation k on
RECURSIVE Puzzle2From(_, _, _)
Puzzle2From(pos, rots, k) ==
    IF k > Len(rots) THEN 0
    ELSE Puzzle2Crossings(pos, Multiplier(rots[k]), Dist(rots[k]).val)
            + Puzzle2From(Puzzle2Pos(pos, Multiplier(rots[k]), Dist(rots[k]).val),
                          rots, k + 1)

\* Whether a rotation of distance 0 is made while the dial is at 0
RECURSIVE RestsAtZero(_, _, _)
RestsAtZero(pos, rots, k) ==
    IF k > Len(rots) THEN FALSE
    ELSE \/ (pos = 0 /\ Dist(rots[k]).val = 0)
         \/ RestsAtZero(Puzzle2Pos(pos, Multiplier(rots[k]), Dist(rots[k]).val),
                        rots, k + 1)

\* The rotations the loop has gone through
Rotated == SubSeq(rotations, 1, d1_next - 1)

\* The count of a run against the count of the other function on the
\* rotations gone through so far
Puzzle2AtLeastPuzzle1 ==
    /\ d1_fn = "puzzle2" => zero_count >= Puzzle1From(init_pos, Rotated, 1)
    /\ d1_fn = "puzzle1" => zero_count <= Puzzle2From(init_pos, Rotated, 1)

\* A rotation of puzzle2 that lands on 0 raises the count
LandingIsCounted ==
    (d1_fn = "puzzle2" /\ d1_next' = d1_next + 1 /\ curr_pos' = 0)
        => zero_count' > zero_count

\* A rotation of puzzle2 that lands on 0 and is not one of distance 0 made at
\* 0 raises the count
MovedLandingIsCounted ==
    (/\ d1_fn = "puzzle2"
     /\ d1_next' = d1_next + 1
     /\ curr_pos' = 0
     /\ ~(curr_pos = 0 /\ Dist(rotations[d1_next]).val = 0))
        => zero_count' > zero_count

\* C28 as stated: for the same start and the same rotations the count of
\* puzzle2 is never smaller than the count of puzzle1, every rotation that
\* lands on 0 being counted as a crossing.
C28_Puzzle2CountsAtLeastPuzzle1 ==
    /\ [](d1_pc \in {"loop", "done"} => Puzzle2AtLeastPuzzle1)
    /\ [][LandingIsCounted]_vars

\* C28, amended: the same, provided no rotation of distance 0 is made while
\* the dial is at 0.
C28_Puzzle2CountsAtLeastPuzzle1WhenMoved ==
    /\ []((d1_pc \in {"loop", "done"} /\ ~RestsAtZero(init_pos, Rotated, 1))
             => Puzzle2AtLeastPuzzle1)
    /\ [][MovedLandingIsCounted]_vars

\* A returned puzzle2 run of two rotations, one of distance 0 away from 0
\* and one that lands on 0, with more crossings than puzzle1 has landings
C28_Witness ==
    /\ d1_pc = "done"
    /\ d1_fn = "puzzle2"
    /\ Len(rotations) = 2
    /\ ~RestsAtZero(init_pos, rotations, 1)
    /\ \E k \in 1..2 : Dist(rotations[k]).val = 0
    /\ curr_pos = 0
    /\ Puzzle1From(init_pos, rotations, 1) = 1
    /\ zero_count > 1

(***************************************************************************)
(* Day 2 puzzle 2 as its own program (src/src/day-2-puzzle-2.rs)           *)
(***************************************************************************)
\* NumberRange::from_str, lines 37-55: split_once('-'), the leading-zero
\* test, the two parses and the ordering test `to < from`
StandaloneFromStr(str) ==
    LET k == FirstIndexOf(str, "-")
        from_str == SubSeq(str, 1, k - 1)
        to_str == SubSeq(str, k + 1, Len(str))
        from == ParseU64(from_str)
        to == ParseU64(to_str)
    IN  IF k = 0 THEN [ok |-> FALSE, from |-> 0, to |-> 0]
        ELSE IF StartsWith(from_str, "0") \/ StartsWith(to_str, "0")
        THEN [ok |-> FALSE, from |-> 0, to |-> 0]
        ELSE IF ~from.ok \/ ~to.ok THEN [ok |-> FALSE, from |-> 0, to |-> 0]
        ELSE IF to.val < from.val THEN [ok |-> FALSE, from |-> 0, to |-> 0]
        ELSE [ok |-> TRUE, from |-> from.val, to |-> to.val]

\* ---- inputs ----
\* ranges of the test of the program, ranges of one number, and strings
\* that are no range
StandaloneItems ==
    {RangeStr(11, 22), RangeStr(95, 115), RangeStr(998, 1012),
     RangeStr(11, 11), RangeStr(7, 7), RangeStr(22, 11),
     <<"i", "n", "v">>, <<"1", "-">>, <<"0", "1", "-", "2">>, <<"1", "-", "2", "-", "3">>}
StandaloneInputs ==
    {<<>>} \cup {Join(items, ",") : items \in UNION {[1..n -> StandaloneItems] : n \in 1..MaxRanges}}

InitDay2Standalone ==
    /\ idle2
    /\ idle2
    /\ d2_fn = "day_2_puzzle_2"
    /\ d2_input \in StandaloneInputs
    /\ ranges = <<>>
    /\ d2_next = 1
    /\ range = <<0, 0>>
    /\ d2_i = 0
    /\ sum = 0
    /\ d2_pc = "split"

\* lines 21-23: from_str fails and the range_str is skipped
StandaloneSkipMalformed ==
    /\ d2_pc = "ranges"
    /\ d2_fn = "day_2_puzzle_2"
    /\ d2_next <= Len(ranges)
    /\ ~StandaloneFromStr(ranges[d2_next]).ok
    /\ d2_next' = d2_next + 1
    /\ UNCHANGED <<d2_fn, d2_input, ranges, range, d2_i, sum, d2_pc>>
    /\ UNCHANGED others2

\* lines 21, 24: from_str succeeds and the loop over the range starts
StandaloneEnterRange ==
    /\ d2_pc = "ranges"
    /\ d2_fn = "day_2_puzzle_2"
    /\ d2_next <= Len(ranges)
    /\ StandaloneFromStr(ranges[d2_next]).ok
    /\ range' = <<StandaloneFromStr(ranges[d2_next]).from,
                  StandaloneFromStr(ranges[d2_next]).to>>
    /\ d2_i' = StandaloneFromStr(ranges[d2_next]).from
    /\ d2_pc' = "numbers"
    /\ UNCHANGED <<d2_fn, d2_input, ranges, d2_next, sum>>
    /\ UNCHANGED others2

\* lines 24-30: one iteration of the loop over the range
StandaloneNumber ==
    /\ d2_pc = "numbers"
    /\ d2_fn = "day_2_puzzle_2"
    /\ d2_i <= range[2]
    /\ sum' = IF Puzzle2Counts(d2_i) THEN sum + d2_i ELSE sum
    /\ d2_i' = d2_i + 1
    /\ UNCHANGED <<d2_fn, d2_input, ranges, d2_next, range, d2_pc>>
    /\ UNCHANGED others2

\* lines 18-33: the split, the end of a range and the return are those of
\* solutions::day2::puzzle2
NextDay2Standalone ==
    \/ D2Split
    \/ StandaloneSkipMalformed
    \/ StandaloneEnterRange
    \/ StandaloneNumber
    \/ D2RangeDone
    \/ D2Return

\* C29: day_2_puzzle_2 of the standalone program and solutions::day2::puzzle2
\* return the same sum for every input string: they accept the same ranges
\* and apply the same repeat test.
C29_CopiesReturnTheSameSum ==
    (d2_fn = "day_2_puzzle_2" /\ d2_pc = "done") =>
        /\ sum = ResultOn("puzzle2", ranges)
        /\ \A k \in 1..Len(ranges) :
              StandaloneFromStr(ranges[k]).ok = FromStr(ranges[k]).ok

(***************************************************************************)
(* utils::string_to_file called from the threads of one process            *)
(* (src/src/utils.rs)                                                      *)
(***************************************************************************)
\* line 22: format!("tmp_{}", std::process::id()) in the temp directory
TempPath(id) == <<"t", "m", "p", "_">> \o U64ToString(id)

\* line 23, std::fs::write: File::create gives an empty file at the path,
\* whether or not one was there
Created == [exists |-> TRUE, bytes |-> <<>>]

\* line 23, std::fs::write: write_all puts the content at offset 0 of the
\* file the handle is open on and leaves what lies beyond it
WrittenOver(file, content) ==
    [exists |-> TRUE,
     bytes |-> content \o SubSeq(file.bytes, Len(content) + 1, Len(file.bytes))]

\* ---- inputs ----
\* the threads that call string_to_file, as the tests of day 6 and day 7 do
NumCallers == 2
Callers == 1..NumCallers
Pids == {1, 4242}
\* contents of different lengths, in the manner of the TEST_INPUTs
ContentPool ==
    {<<"1", " ", "2", "\n", "+", "\n">>,
     <<"S", "\n">>,
     <<".", "S", ".", "\n", "^", "\n">>,
     <<"3", "\n", "*", "\n">>}

InitUtils ==
    /\ idleUtils
    /\ pid \in Pids
    /\ fs = [p \in {TempPath(id) : id \in Pids} |-> [exists |-> FALSE, bytes |-> <<>>]]
    /\ u_content \in {f \in [Callers -> ContentPool] :
                         \A a, b \in Callers : a # b => f[a] # f[b]}
    /\ u_path = [c \in Callers |-> <<>>]
    /\ u_read = [c \in Callers |-> [exists |-> FALSE, bytes |-> <<>>]]
    /\ u_pc = [c \in Callers |-> "call"]

\* lines 22-23: the path is built and fs::write creates or truncates the file
StringToFileCreate(c) ==
    /\ u_pc[c] = "call"
    /\ u_path' = [u_path EXCEPT ![c] = TempPath(pid)]
    /\ fs' = [fs EXCEPT ![TempPath(pid)] = Created]
    /\ u_pc' = [u_pc EXCEPT ![c] = "write"]
    /\ UNCHANGED <<pid, u_content, u_read>>
    /\ UNCHANGED othersUtils

\* lines 23-24: fs::write writes the content, and the path is returned
StringToFileWrite(c) ==
    /\ u_pc[c] = "write"
    /\ fs' = [fs EXCEPT ![u_path[c]] = WrittenOver(fs[u_path[c]], u_content[c])]
    /\ u_pc' = [u_pc EXCEPT ![c] = "returned"]
    /\ UNCHANGED <<pid, u_content, u_path, u_read>>
    /\ UNCHANGED othersUtils

\* day6.rs line 214, day7.rs line 279: the caller hands the path to a puzzle,
\* which reads the file at it
CallerReads(c) ==
    /\ u_pc[c] = "returned"
    /\ u_read' = [u_read EXCEPT ![c] = fs[u_path[c]]]
    /\ u_pc' = [u_pc EXCEPT ![c] = "read"]
    /\ UNCHANGED <<pid, fs, u_content, u_path>>
    /\ UNCHANGED othersUtils

NextUtils ==
    \/ \E c \in Callers : StringToFileCreate(c)
    \/ \E c \in Callers : StringToFileWrite(c)
    \/ \E c \in Callers : CallerReads(c)

\* C30: when several callers of one process call string_to_file with
\* different contents, in any interleaving, every caller that afterwards
\* reads the path it was given finds exactly the content it passed in.
C30_EveryCallerReadsItsOwnContent ==
    \A c \in DOMAIN u_pc :
        u_pc[c] = "read" => (u_read[c].exists /\ u_read[c].bytes = u_content[c])

(***************************************************************************)
(* The specifications: one per day                                         *)
(***************************************************************************)
SpecDay1 == InitDay1 /\ [][NextDay1]_vars

SpecDay2 == InitDay2 /\ [][NextDay2]_vars

SpecDay3 == InitDay3 /\ [][NextDay3]_vars

SpecDay4 == InitDay4 /\ [][NextDay4]_vars

SpecDay5 == InitDay5 /\ [][NextDay5]_vars

SpecDay6 == InitDay6 /\ [][NextDay6]_vars

SpecDay7 == InitDay7 /\ [][NextDay7]_vars

SpecDay3Puzzle1 == InitDay3Puzzle1 /\ [][NextDay3Puzzle1]_vars

SpecDay7Puzzle1 == InitDay7Puzzle1 /\ [][NextDay7Puzzle1]_vars

SpecDay6Puzzle1 == InitDay6Puzzle1 /\ [][NextDay6Puzzle1]_vars

SpecDay5Puzzle1 == InitDay5Puzzle1 /\ [][NextDay5Puzzle1]_vars

SpecDay2FromStr == InitDay2FromStr /\ [][NextDay2FromStr]_vars

\* puzzle1 and puzzle2 are sequential code: a step that can be taken is taken
SpecDay4Fair == InitDay4 /\ [][NextDay4]_vars /\ WF_vars(NextDay4)

SpecDay2Standalone == InitDay2Standalone /\ [][NextDay2Standalone]_vars

SpecUtils == InitUtils /\ [][NextUtils]_vars

====
